---- MODULE Spec2Model ----
(***************************************************************************)
(* A model of mcp-server/browser_proxy.py: the BrowserProxy class, a thin  *)
(* proxy between tool calls and a Chrome browser reached over CDP.         *)
(*                                                                         *)
(* The proxy's own state is the pair of cached handles (playwright,        *)
(* browser).  Everything else is the browser: the browsing contexts, their *)
(* pages, and each page's focus, visibility, URL and document.  A method   *)
(* of the class is an operator that maps the state it reads to its result, *)
(* the driver operations it issued (in order), what it logged, and the     *)
(* state it leaves; an action applies one method to the current state and  *)
(* records that observation in `last`.                                     *)
(***************************************************************************)
EXTENDS Integers, Sequences, FiniteSets, TLC

VARIABLES
  attributes,  \* self.app, self.cdp_endpoint, self.logger: set by __init__
  playwright,  \* self.playwright: None or the started driver
  browser,     \* self.browser: None or the attached Browser
  reachable,   \* whether the CDP endpoint accepts an attach right now
  contexts,    \* browser.contexts: a sequence of contexts, each a sequence of pages
  last,        \* the observation of the latest call: call, args, result, ops, log
  tasks        \* the calls that run concurrently: each one's position and locals

vars == <<attributes, playwright, browser, reachable, contexts, last, tasks>>

----------------------------------------------------------------------------
(* Bounds of the model. *)

MaxPages == 3       \* pages in the browser, specification SpecResolve
MaxTabs == 2        \* pages in the browser, specification Spec
MaxContexts == 2    \* browsing contexts
MaxNodes == 2       \* text nodes of a document, specification SpecClick

----------------------------------------------------------------------------
(* Python values. *)

None == "None"

cdp_endpoint == "http://localhost:9222"

\* __init__: the attributes of the proxy besides the two cached handles.
__init__ ==
  [app |-> "browser-proxy", cdp_endpoint |-> cdp_endpoint, logger |-> "browser-proxy"]

Return(v) == [kind |-> "return", value |-> v]
Raise(type, msg) == [kind |-> "raise", type |-> type, msg |-> msg]

Raised(r) == r.kind = "raise"

\* A driver operation issued by the proxy: its name, the page handle it is
\* issued on (NoPage for browser-level operations), and its arguments.
NoPage == <<0, 0>>
Op(name, page, args) == [op |-> name, page |-> page, args |-> args]

LogEntry(level, msg) == [level |-> level, msg |-> msg]

\* The operations of a sequence that carry one of the given names.
RECURSIVE OpsNamed(_, _)
OpsNamed(ops, names) ==
  IF ops = <<>> THEN <<>>
  ELSE LET rest == OpsNamed(Tail(ops), names)
       IN IF Head(ops).op \in names THEN <<Head(ops)>> \o rest ELSE rest

----------------------------------------------------------------------------
(* The browser. *)

\* A page handle is <<context index, page index within the context>>.
PageAt(ctxs, h) == ctxs[h[1]][h[2]]

\* all_pages: for context in browser.contexts: all_pages.extend(context.pages)
RECURSIVE all_pages_from(_, _)
all_pages_from(ctxs, c) ==
  IF c > Len(ctxs) THEN <<>>
  ELSE [i \in 1..Len(ctxs[c]) |-> <<c, i>>] \o all_pages_from(ctxs, c + 1)

all_pages(ctxs) == all_pages_from(ctxs, 1)

PageCount(ctxs) == Len(all_pages(ctxs))

----------------------------------------------------------------------------
(* Strings that are searched or matched are sequences of characters. *)

Whitespace == {" ", "\t", "\n"}

\* JavaScript String.prototype.trim
RECURSIVE TrimLeft(_)
TrimLeft(t) ==
  IF t # <<>> /\ Head(t) \in Whitespace THEN TrimLeft(Tail(t)) ELSE t

RECURSIVE TrimRight(_)
TrimRight(t) ==
  IF t # <<>> /\ t[Len(t)] \in Whitespace
  THEN TrimRight(SubSeq(t, 1, Len(t) - 1)) ELSE t

Trim(t) == TrimRight(TrimLeft(t))

\* str.startswith / String.prototype.includes / Python's `in` on strings
StartsWith(t, prefix) ==
  Len(prefix) <= Len(t) /\ SubSeq(t, 1, Len(prefix)) = prefix

Includes(t, sub) ==
  \E i \in 1..(Len(t) + 1) :
    i + Len(sub) - 1 <= Len(t) /\ SubSeq(t, i, i + Len(sub) - 1) = sub

----------------------------------------------------------------------------
(* The document of a page, as the in-page scripts of smart_click see it.   *)
(* A text node has its textContent, the box of its text range in document  *)
(* coordinates, and the vertical extent of its parent element.  The window *)
(* shows the part of the document from scrollY on; the document does not   *)
(* scroll sideways.                                                        *)

innerWidth == 4
innerHeight == 4
scrollHeight == 12

\* range.getBoundingClientRect(): the box relative to the viewport
getBoundingClientRect(node, doc) ==
  [left |-> node.x, top |-> node.y - doc.scrollY,
   right |-> node.x + node.w, bottom |-> node.y - doc.scrollY + node.h,
   width |-> node.w, height |-> node.h]

\* text === targetText || text.includes(targetText), on the trimmed text
TextMatches(node, targetText) ==
  LET text == Trim(node.text)
  IN text = targetText \/ Includes(text, targetText)

PositiveArea(rect) == rect.width > 0 /\ rect.height > 0

isVisible(rect) ==
  /\ rect.top >= 0
  /\ rect.left >= 0
  /\ rect.bottom <= innerHeight
  /\ rect.right <= innerWidth

\* { x: rect.left + rect.width / 2, y: rect.top + rect.height / 2, ... }
\* (every box of the model has even sides, so the halves are exact)
Match(node, doc) ==
  LET rect == getBoundingClientRect(node, doc)
  IN [found |-> TRUE, visible |-> isVisible(rect),
      x |-> rect.left + rect.width \div 2,
      y |-> rect.top + rect.height \div 2]

NotFound == [found |-> FALSE, visible |-> FALSE, x |-> 0, y |-> 0]

\* The first script: walk the text nodes in document order; return the first
\* positive-area match that is inside the viewport, else the first
\* positive-area match at all (bestMatch), else { found: false }.
RECURSIVE ScanFrom(_, _, _, _)
ScanFrom(doc, targetText, i, bestMatch) ==
  IF i > Len(doc.nodes) THEN bestMatch
  ELSE LET node == doc.nodes[i]
           rect == getBoundingClientRect(node, doc)
           match == Match(node, doc)
       IN IF TextMatches(node, targetText) /\ PositiveArea(rect)
          THEN IF match.visible THEN match
               ELSE ScanFrom(doc, targetText, i + 1,
                             IF bestMatch.found THEN bestMatch ELSE match)
          ELSE ScanFrom(doc, targetText, i + 1, bestMatch)

\* A scan that takes the first positive-area match, in the viewport or not.
RECURSIVE ScanFirstMatchFrom(_, _, _)
ScanFirstMatchFrom(doc, targetText, i) ==
  IF i > Len(doc.nodes) THEN NotFound
  ELSE IF TextMatches(doc.nodes[i], targetText)
          /\ PositiveArea(getBoundingClientRect(doc.nodes[i], doc))
       THEN Match(doc.nodes[i], doc)
       ELSE ScanFirstMatchFrom(doc, targetText, i + 1)

ScanFirstMatch(doc, targetText) == ScanFirstMatchFrom(doc, targetText, 1)

\* A scan without the test for a positive area.
RECURSIVE ScanAnyAreaFrom(_, _, _, _)
ScanAnyAreaFrom(doc, targetText, i, bestMatch) ==
  IF i > Len(doc.nodes) THEN bestMatch
  ELSE LET match == Match(doc.nodes[i], doc)
       IN IF TextMatches(doc.nodes[i], targetText)
          THEN IF match.visible THEN match
               ELSE ScanAnyAreaFrom(doc, targetText, i + 1,
                                    IF bestMatch.found THEN bestMatch ELSE match)
          ELSE ScanAnyAreaFrom(doc, targetText, i + 1, bestMatch)

ScanAnyArea(doc, targetText) == ScanAnyAreaFrom(doc, targetText, 1, NotFound)

Scan(doc, targetText) == ScanFrom(doc, targetText, 1, NotFound)

Clamp(v, lo, hi) == IF v < lo THEN lo ELSE IF v > hi THEN hi ELSE v

\* element.scrollIntoView({ behavior: 'smooth', block: 'center' }): the
\* element's vertical middle goes to the middle of the window, as far as the
\* document can scroll.
scrollIntoView(doc, node) ==
  [doc EXCEPT !.scrollY =
     Clamp(node.parent.y + node.parent.h \div 2 - innerHeight \div 2,
           0, scrollHeight - innerHeight)]

\* The second script: scroll the parent element of the first text node whose
\* text matches (no area test here) into view.
RECURSIVE ScrollFrom(_, _, _)
ScrollFrom(doc, targetText, i) ==
  IF i > Len(doc.nodes) THEN [scrolled |-> FALSE, doc |-> doc, node |-> 0]
  ELSE IF TextMatches(doc.nodes[i], targetText)
       THEN [scrolled |-> TRUE, doc |-> scrollIntoView(doc, doc.nodes[i]),
             node |-> i]
       ELSE ScrollFrom(doc, targetText, i + 1)

ScrollScan(doc, targetText) == ScrollFrom(doc, targetText, 1)

\* The third script: the first positive-area match, inside the viewport or not.
RECURSIVE RescanFrom(_, _, _)
RescanFrom(doc, targetText, i) ==
  IF i > Len(doc.nodes) THEN NotFound
  ELSE LET node == doc.nodes[i]
       IN IF TextMatches(node, targetText)
             /\ PositiveArea(getBoundingClientRect(node, doc))
          THEN Match(node, doc)
          ELSE RescanFrom(doc, targetText, i + 1)

Rescan(doc, targetText) == RescanFrom(doc, targetText, 1)

----------------------------------------------------------------------------
(* smart_click *)

\* target.startswith(('#', '.', '[')) or ' > ' in target
\*   or target.startswith('div[') or target.startswith('button[')
is_css_selector(target) ==
  \/ StartsWith(target, <<"#">>)
  \/ StartsWith(target, <<".">>)
  \/ StartsWith(target, <<"[">>)
  \/ Includes(target, <<" ", ">", " ">>)
  \/ StartsWith(target, <<"d", "i", "v", "[">>)
  \/ StartsWith(target, <<"b", "u", "t", "t", "o", "n", "[">>)

\* page.evaluate raises on a page that is navigating or closed.
EvaluateRaises(page) == page.busy

Coordinates(m) == [x |-> m.x, y |-> m.y]

ClickFailed == [error |-> <<"Click failed: ", "evaluate raised">>]

\* The step of a click at which the page stops answering: it is closed, or
\* crashes, or navigates away, while the click is under way.
StepRaises(page, step) == page.failsAt = step

\* The text path clicking, after the scroll, where the first script saw the match.
smart_click_found_stale(page, h, target, result) ==
  LET scan == Op("evaluate", h, <<"scan", target>>)
      scroll_result == ScrollScan(page.doc, target)
      scrolled == [page EXCEPT !.doc = scroll_result.doc]
      new_result == Rescan(scroll_result.doc, target)
      upto == <<scan, Op("evaluate", h, <<"scroll", target>>)>>
      waited == upto \o <<Op("wait_for_timeout", h, <<500>>)>>
      settled == waited \o <<Op("evaluate", h, <<"rescan", target>>)>>
      failed(at, ops) == [page |-> at, result |-> Return(ClickFailed), ops |-> ops]
      missed(at, ops) ==
        [page |-> at,
         result |-> Return([error |-> <<"Could not find text: '", target, "'">>]),
         ops |-> ops]
  IN IF result.visible
     THEN LET pointed == <<scan, Op("mouse.click", h, <<result.x, result.y>>)>>
          IN IF StepRaises(page, "mouse.click") THEN failed(page, pointed)
             ELSE [page |-> page,
                   result |-> Return([clicked |-> target, method |-> "trusted_mouse_click",
                                      coordinates |-> Coordinates(result)]),
                   ops |-> pointed]
     ELSE IF StepRaises(page, "scroll") THEN failed(page, upto)
     ELSE IF ~scroll_result.scrolled THEN missed(scrolled, upto)
     ELSE IF StepRaises(page, "wait_for_timeout") THEN failed(scrolled, waited)
     ELSE IF StepRaises(page, "rescan") THEN failed(scrolled, settled)
     ELSE IF ~new_result.found THEN missed(scrolled, settled)
     ELSE LET pointed == settled \o <<Op("mouse.click", h, <<result.x, result.y>>)>>
          IN IF StepRaises(page, "mouse.click") THEN failed(scrolled, pointed)
             ELSE [page |-> scrolled,
                   result |-> Return([clicked |-> target, method |-> "scroll_then_click",
                                      coordinates |-> Coordinates(result)]),
                   ops |-> pointed]

\* The text path once the first script has returned `result`.
smart_click_found(page, h, target, result) ==
  LET scan == Op("evaluate", h, <<"scan", target>>)
      scroll_result == ScrollScan(page.doc, target)
      scrolled == [page EXCEPT !.doc = scroll_result.doc]
      new_result == Rescan(scroll_result.doc, target)
      upto == <<scan, Op("evaluate", h, <<"scroll", target>>)>>
      waited == upto \o <<Op("wait_for_timeout", h, <<500>>)>>
      settled == waited \o <<Op("evaluate", h, <<"rescan", target>>)>>
      failed(at, ops) == [page |-> at, result |-> Return(ClickFailed), ops |-> ops]
      missed(at, ops) ==
        [page |-> at,
         result |-> Return([error |-> <<"Could not find text: '", target, "'">>]),
         ops |-> ops]
  IN IF result.visible
     THEN LET pointed == <<scan, Op("mouse.click", h, <<result.x, result.y>>)>>
          IN IF StepRaises(page, "mouse.click") THEN failed(page, pointed)
             ELSE [page |-> page,
                   result |-> Return([clicked |-> target, method |-> "trusted_mouse_click",
                                      coordinates |-> Coordinates(result)]),
                   ops |-> pointed]
     ELSE IF StepRaises(page, "scroll") THEN failed(page, upto)
     ELSE IF ~scroll_result.scrolled THEN missed(scrolled, upto)
     ELSE IF StepRaises(page, "wait_for_timeout") THEN failed(scrolled, waited)
     ELSE IF StepRaises(page, "rescan") THEN failed(scrolled, settled)
     ELSE IF ~new_result.found THEN missed(scrolled, settled)
     ELSE LET pointed == settled \o <<Op("mouse.click", h, <<new_result.x, new_result.y>>)>>
          IN IF StepRaises(page, "mouse.click") THEN failed(scrolled, pointed)
             ELSE [page |-> scrolled,
                   result |-> Return([clicked |-> target, method |-> "scroll_then_click",
                                      coordinates |-> Coordinates(new_result)]),
                   ops |-> pointed]

\* smart_click without its try blocks: what a page operation raises, the
\* caller gets.
smart_click_unguarded(page, h, target) ==
  IF is_css_selector(target)
  THEN [page |-> page,
        result |-> IF target \in page.doc.elems
                   THEN Return([clicked |-> target, method |-> "css_selector"])
                   ELSE Raise("TimeoutError", <<"Timeout 5000ms exceeded">>),
        ops |-> <<Op("click", h, <<target, 5000>>)>>]
  ELSE IF EvaluateRaises(page)
  THEN [page |-> page, result |-> Raise("Error", <<"evaluate raised">>),
        ops |-> <<Op("evaluate", h, <<"scan", target>>)>>]
  ELSE LET result == Scan(page.doc, target)
           done == smart_click_found(page, h, target, result)
       IN IF result.found
          THEN IF done.result = Return(ClickFailed)
               THEN [done EXCEPT !.result = Raise("Error", <<"evaluate raised">>)]
               ELSE done
          ELSE [page |-> page,
                result |-> Return([error |-> <<"Could not find text: '", target, "'">>]),
                ops |-> <<Op("evaluate", h, <<"scan", target>>)>>]

smart_click(page, h, target) ==
  IF is_css_selector(target)
  THEN [page |-> page,
        result |-> IF target \in page.doc.elems
                   THEN Return([clicked |-> target, method |-> "css_selector"])
                   ELSE Return([error |-> <<"Could not click ", target, ": ", "Timeout 5000ms exceeded">>]),
        ops |-> <<Op("click", h, <<target, 5000>>)>>]
  ELSE IF EvaluateRaises(page)
  THEN [page |-> page, result |-> Return(ClickFailed),
        ops |-> <<Op("evaluate", h, <<"scan", target>>)>>]
  ELSE LET result == Scan(page.doc, target)
       IN IF result.found
          THEN smart_click_found(page, h, target, result)
          ELSE [page |-> page,
                result |-> Return([error |-> <<"Could not find text: '", target, "'">>]),
                ops |-> <<Op("evaluate", h, <<"scan", target>>)>>]

----------------------------------------------------------------------------
(* The proxy's methods.  A method reads st = [playwright, browser,         *)
(* reachable, contexts, attributes] and yields an outcome [st, result, ops, *)
(* log].                                                                   *)

Outcome(st, result, ops, log) ==
  [st |-> st, result |-> result, ops |-> ops, log |-> log]

\* get_browser that does not look at the cached connection.
get_browser_reconnecting(st) ==
  LET start == IF st.playwright = None
               THEN <<Op("async_playwright.start", NoPage, <<>>)>> ELSE <<>>
      attach == Op("connect_over_cdp", NoPage, <<cdp_endpoint>>)
      started == [st EXCEPT !.playwright = "Playwright"]
  IN IF st.reachable
     THEN Outcome([started EXCEPT !.browser = "Browser"], Return("Browser"),
                  start \o <<attach>>,
                  <<LogEntry("info", <<"Connected to browser at ", cdp_endpoint>>)>>)
     ELSE Outcome(started,
                  Raise("RuntimeError", <<"Cannot connect to browser at ", cdp_endpoint>>),
                  start \o <<attach>>,
                  <<LogEntry("error", <<"Failed to connect to CDP">>)>>)

\* get_browser that attaches a second time when the first attempt fails.
get_browser_retrying(st) ==
  IF st.browser # None
  THEN Outcome(st, Return(st.browser), <<>>, <<>>)
  ELSE LET start == IF st.playwright = None
                    THEN <<Op("async_playwright.start", NoPage, <<>>)>> ELSE <<>>
           attach == Op("connect_over_cdp", NoPage, <<cdp_endpoint>>)
           started == [st EXCEPT !.playwright = "Playwright"]
       IN IF st.reachable
          THEN Outcome([started EXCEPT !.browser = "Browser"], Return("Browser"),
                       start \o <<attach>>,
                       <<LogEntry("info", <<"Connected to browser at ", cdp_endpoint>>)>>)
          ELSE Outcome(started,
                       Raise("RuntimeError", <<"Cannot connect to browser at ", cdp_endpoint>>),
                       start \o <<attach, attach>>,
                       <<LogEntry("error", <<"Failed to connect to CDP">>)>>)

\* get_browser: the cached connection, made on first use.
get_browser(st) ==
  IF st.browser # None
  THEN Outcome(st, Return(st.browser), <<>>, <<>>)
  ELSE LET start == IF st.playwright = None
                    THEN <<Op("async_playwright.start", NoPage, <<>>)>> ELSE <<>>
           attach == Op("connect_over_cdp", NoPage, <<cdp_endpoint>>)
           started == [st EXCEPT !.playwright = "Playwright"]
       IN IF st.reachable
          THEN Outcome([started EXCEPT !.browser = "Browser"], Return("Browser"),
                       start \o <<attach>>,
                       <<LogEntry("info", <<"Connected to browser at ", cdp_endpoint>>)>>)
          ELSE Outcome(started,
                       Raise("RuntimeError", <<"Cannot connect to browser at ", cdp_endpoint>>),
                       start \o <<attach>>,
                       <<LogEntry("error", <<"Failed to connect to CDP">>)>>)

\* A probe that asks for the focus alone.
is_active_focus_only(page) == page.hasFocus

\* The probe of get_active_page:
\*   document.hasFocus() && document.visibilityState === 'visible'
is_active(page) == page.hasFocus /\ page.visible

ProbeOp(h) == Op("evaluate", h, <<"hasFocus && visible">>)

\* for page in all_pages: probe it; return the first page whose probe is
\* true; a probe that raises moves on to the next page.
RECURSIVE FocusScan(_, _, _)
FocusScan(ctxs, pages, i) ==
  IF i > Len(pages) THEN [found |-> FALSE, page |-> NoPage, ops |-> <<>>]
  ELSE LET page == PageAt(ctxs, pages[i])
       IN IF ~EvaluateRaises(page) /\ is_active(page)
          THEN [found |-> TRUE, page |-> pages[i], ops |-> <<ProbeOp(pages[i])>>]
          ELSE LET rest == FocusScan(ctxs, pages, i + 1)
               IN [rest EXCEPT !.ops = <<ProbeOp(pages[i])>> \o @]

\* get_active_page without the fallback: no focused page is an error.
get_active_page_strict(st) ==
  LET gb == get_browser(st)
      pages == all_pages(gb.st.contexts)
      listed == gb.ops \o <<Op("contexts", NoPage, <<>>)>>
      scan == FocusScan(gb.st.contexts, pages, 1)
  IN IF Raised(gb.result) THEN gb
     ELSE IF pages = <<>>
     THEN Outcome(gb.st, Raise("RuntimeError", <<"No pages open in browser">>),
                  listed, gb.log)
     ELSE IF scan.found
     THEN Outcome(gb.st, Return(scan.page), listed \o scan.ops, gb.log)
     ELSE Outcome(gb.st, Raise("RuntimeError", <<"No page has focus">>),
                  listed \o scan.ops, gb.log)

\* get_active_page without the test for an empty page list: all_pages[0]
\* raises IndexError after the scan of no pages.
get_active_page_unchecked(st) ==
  LET gb == get_browser(st)
      pages == all_pages(gb.st.contexts)
      listed == gb.ops \o <<Op("contexts", NoPage, <<>>)>>
      scan == FocusScan(gb.st.contexts, pages, 1)
      warned == gb.log \o <<LogEntry("warning",
                                     <<"No page has focus, using first available">>)>>
  IN IF Raised(gb.result) THEN gb
     ELSE IF scan.found
     THEN Outcome(gb.st, Return(scan.page), listed \o scan.ops, gb.log)
     ELSE IF pages = <<>>
     THEN Outcome(gb.st, Raise("IndexError", <<"list index out of range">>), listed, warned)
     ELSE Outcome(gb.st, Return(pages[1]), listed \o scan.ops, warned)

\* get_active_page without the try around the probe: a probe that raises
\* ends the call.
get_active_page_aborting(st) ==
  LET gb == get_browser(st)
      pages == all_pages(gb.st.contexts)
      listed == gb.ops \o <<Op("contexts", NoPage, <<>>)>>
      scan == FocusScan(gb.st.contexts, pages, 1)
  IN IF Raised(gb.result) THEN gb
     ELSE IF pages = <<>>
     THEN Outcome(gb.st, Raise("RuntimeError", <<"No pages open in browser">>),
                  listed, gb.log)
     ELSE IF \E i \in 1..Len(scan.ops) :
               EvaluateRaises(PageAt(gb.st.contexts, scan.ops[i].page))
     THEN Outcome(gb.st, Raise("Error", <<"evaluate raised">>), listed \o scan.ops, gb.log)
     ELSE IF scan.found
     THEN Outcome(gb.st, Return(scan.page), listed \o scan.ops, gb.log)
     ELSE Outcome(gb.st, Return(pages[1]), listed \o scan.ops,
                  gb.log \o <<LogEntry("warning",
                                       <<"No page has focus, using first available">>)>>)

get_active_page(st) ==
  LET gb == get_browser(st)
      pages == all_pages(gb.st.contexts)
      listed == gb.ops \o <<Op("contexts", NoPage, <<>>)>>
      scan == FocusScan(gb.st.contexts, pages, 1)
  IN IF Raised(gb.result) THEN gb
     ELSE IF pages = <<>>
     THEN Outcome(gb.st, Raise("RuntimeError", <<"No pages open in browser">>),
                  listed, gb.log)
     ELSE IF scan.found
     THEN Outcome(gb.st, Return(scan.page), listed \o scan.ops,
                  gb.log \o <<LogEntry("debug", <<"Active page: ",
                                                  PageAt(gb.st.contexts, scan.page).url>>)>>)
     ELSE Outcome(gb.st, Return(pages[1]), listed \o scan.ops,
                  gb.log \o <<LogEntry("warning",
                                       <<"No page has focus, using first available">>)>>)

----------------------------------------------------------------------------
(* Page operations of the driver, as far as the proxy depends on them. *)

Blank == "about:blank"
Site == "https://a.example"
DownSite == "https://down.example"   \* a navigation to it fails

OkSelector == <<"#", "o", "k">>          \* matches an element of every site page
MissingSelector == <<".", "n", "o">>     \* matches nothing

\* The document a URL serves.
SiteDoc(url) ==
  IF url = Blank
  THEN [nodes |-> <<>>, scrollY |-> 0, elems |-> {}]
  ELSE [nodes |-> <<[text |-> <<"O", "K">>, x |-> 0, y |-> 0, w |-> 2, h |-> 2,
                     parent |-> [y |-> 0, h |-> 2]]>>,
        scrollY |-> 0, elems |-> {OkSelector}]

NewPage(url) ==
  [url |-> url, hasFocus |-> FALSE, visible |-> FALSE, busy |-> FALSE,
   failsAt |-> "never", doc |-> SiteDoc(url)]

title(page) == <<"Title of ", page.url>>

\* document.body.innerText
RECURSIVE innerTextFrom(_, _)
innerTextFrom(nodes, i) ==
  IF i > Len(nodes) THEN <<>> ELSE nodes[i].text \o innerTextFrom(nodes, i + 1)

innerText(page) == innerTextFrom(page.doc.nodes, 1)

SetPage(ctxs, h, page) == [ctxs EXCEPT ![h[1]][h[2]] = page]

\* page.bring_to_front(): the page is shown and focused; no other page keeps
\* the focus, and the other pages of its context are hidden behind it.
bring_to_front(ctxs, h) ==
  [c \in 1..Len(ctxs) |->
     [i \in 1..Len(ctxs[c]) |->
        IF <<c, i>> = h
        THEN [ctxs[c][i] EXCEPT !.hasFocus = TRUE, !.visible = TRUE]
        ELSE [ctxs[c][i] EXCEPT !.hasFocus = FALSE,
                                !.visible = IF c = h[1] THEN FALSE ELSE @]]]

\* page.goto(url, ...): the page shows the URL's document once it returns.
goto(page, url) ==
  [page EXCEPT !.url = url, !.busy = FALSE, !.doc = SiteDoc(url)]

GotoRaises(url) == url = DownSite

----------------------------------------------------------------------------
(* switch_to_tab *)

\* switch_to_tab with `index > len(all_pages)`: all_pages[len(all_pages)]
\* raises IndexError.
switch_to_tab_off_by_one(st, index) ==
  LET gb == get_browser(st)
      pages == all_pages(gb.st.contexts)
      listed == gb.ops \o <<Op("contexts", NoPage, <<>>)>>
      h == pages[index + 1]
      page == PageAt(gb.st.contexts, h)
      fronted == [gb.st EXCEPT !.contexts = bring_to_front(gb.st.contexts, h)]
      touched == listed \o <<Op("bring_to_front", h, <<>>),
                             Op("evaluate", h, <<"title, url">>)>>
  IN IF Raised(gb.result) THEN gb
     ELSE IF index < 0 \/ index > Len(pages)
     THEN Outcome(gb.st,
                  Raise("ValueError", <<"Tab index ", index, " out of range (0-",
                                        Len(pages) - 1, ")">>),
                  listed, gb.log)
     ELSE IF index = Len(pages)
     THEN Outcome(gb.st, Raise("IndexError", <<"list index out of range">>), listed, gb.log)
     ELSE IF EvaluateRaises(page)
     THEN Outcome(fronted, Return([title |-> <<"Unknown">>, url |-> page.url]),
                  touched, gb.log)
     ELSE Outcome(fronted, Return([title |-> title(page), url |-> page.url]),
                  touched, gb.log)

\* switch_to_tab that remembers the tab it switched to.
switch_to_tab_tracking(st, index) ==
  LET gb == get_browser(st)
      pages == all_pages(gb.st.contexts)
      listed == gb.ops \o <<Op("contexts", NoPage, <<>>)>>
      h == pages[index + 1]
      page == PageAt(gb.st.contexts, h)
      fronted == [gb.st EXCEPT !.contexts = bring_to_front(gb.st.contexts, h),
                               !.attributes = ("current_tab" :> index) @@ @]
      touched == listed \o <<Op("bring_to_front", h, <<>>),
                             Op("evaluate", h, <<"title, url">>)>>
  IN IF Raised(gb.result) THEN gb
     ELSE IF index < 0 \/ index >= Len(pages)
     THEN Outcome(gb.st,
                  Raise("ValueError", <<"Tab index ", index, " out of range (0-",
                                        Len(pages) - 1, ")">>),
                  listed, gb.log)
     ELSE IF EvaluateRaises(page)
     THEN Outcome(fronted, Return([title |-> <<"Unknown">>, url |-> page.url]),
                  touched, gb.log)
     ELSE Outcome(fronted, Return([title |-> title(page), url |-> page.url]),
                  touched, gb.log)

switch_to_tab(st, index) ==
  LET gb == get_browser(st)
      pages == all_pages(gb.st.contexts)
      listed == gb.ops \o <<Op("contexts", NoPage, <<>>)>>
      h == pages[index + 1]
      page == PageAt(gb.st.contexts, h)
      fronted == [gb.st EXCEPT !.contexts = bring_to_front(gb.st.contexts, h)]
      touched == listed \o <<Op("bring_to_front", h, <<>>),
                             Op("evaluate", h, <<"title, url">>)>>
  IN IF Raised(gb.result) THEN gb
     ELSE IF index < 0 \/ index >= Len(pages)
     THEN Outcome(gb.st,
                  Raise("ValueError", <<"Tab index ", index, " out of range (0-",
                                        Len(pages) - 1, ")">>),
                  listed, gb.log)
     ELSE IF EvaluateRaises(page)
     THEN Outcome(fronted, Return([title |-> <<"Unknown">>, url |-> page.url]),
                  touched, gb.log)
     ELSE Outcome(fronted, Return([title |-> title(page), url |-> page.url]),
                  touched, gb.log)

----------------------------------------------------------------------------
(* list_all_tabs *)

\* window.location.hostname
domain(page) == <<"host of ", page.url>>

InfoOp(h) == Op("evaluate", h, <<"title, url, hasFocus, visible, domain">>)

\* The entry of one page: what its probe told, or the placeholder when the
\* probe raised.
TabEntry(page, tab_index) ==
  IF EvaluateRaises(page)
  THEN [index |-> tab_index, title |-> <<"(Loading...)">>, url |-> page.url,
        active |-> FALSE, domain |-> <<>>]
  ELSE [index |-> tab_index, title |-> title(page), url |-> page.url,
        active |-> page.hasFocus /\ page.visible, domain |-> domain(page)]

\* The listing that leaves out the pages whose probe raised.
RECURSIVE TabsAnsweringFrom(_, _, _, _)
TabsAnsweringFrom(ctxs, pages, i, tab_index) ==
  IF i > Len(pages) THEN <<>>
  ELSE IF EvaluateRaises(PageAt(ctxs, pages[i]))
  THEN TabsAnsweringFrom(ctxs, pages, i + 1, tab_index)
  ELSE <<TabEntry(PageAt(ctxs, pages[i]), tab_index)>>
       \o TabsAnsweringFrom(ctxs, pages, i + 1, tab_index + 1)

list_all_tabs_omitting(st) ==
  LET gb == get_browser(st)
      pages == all_pages(gb.st.contexts)
      probes == [i \in 1..Len(pages) |-> InfoOp(pages[i])]
  IN IF Raised(gb.result) THEN gb
     ELSE Outcome(gb.st, Return(TabsAnsweringFrom(gb.st.contexts, pages, 1, 0)),
                  gb.ops \o <<Op("contexts", NoPage, <<>>)>> \o probes, gb.log)

\* for context in browser.contexts: for page in context.pages: append the
\* page's entry; tab_index += 1
RECURSIVE TabsFrom(_, _, _, _)
TabsFrom(ctxs, pages, i, tab_index) ==
  IF i > Len(pages) THEN <<>>
  ELSE <<TabEntry(PageAt(ctxs, pages[i]), tab_index)>>
       \o TabsFrom(ctxs, pages, i + 1, tab_index + 1)

list_all_tabs(st) ==
  LET gb == get_browser(st)
      pages == all_pages(gb.st.contexts)
      probes == [i \in 1..Len(pages) |-> InfoOp(pages[i])]
  IN IF Raised(gb.result) THEN gb
     ELSE Outcome(gb.st, Return(TabsFrom(gb.st.contexts, pages, 1, 0)),
                  gb.ops \o <<Op("contexts", NoPage, <<>>)>> \o probes, gb.log)

----------------------------------------------------------------------------
(* execute_on_active_tab *)

\* kwargs is a function from the names given to their values.
Given(kwargs, k) == k \in DOMAIN kwargs

\* kwargs.get(k, default)
Get(kwargs, k, default) == IF Given(kwargs, k) THEN kwargs[k] ELSE default

\* `not kwargs.get(k)` for a string parameter: absent or empty
Missing(kwargs, k, empty) == ~Given(kwargs, k) \/ kwargs[k] = empty

valid_wait_conditions == <<"load", "domcontentloaded", "networkidle", "commit">>

InList(v, list) == \E i \in 1..Len(list) : list[i] = v

ContentLimit == 5000

\* content[:5001]: one character too many.
SliceInclusive(content, n) ==
  SubSeq(content, 1, IF Len(content) < n + 1 THEN Len(content) ELSE n + 1)

\* content[:5000]
Slice(content, n) == SubSeq(content, 1, IF Len(content) < n THEN Len(content) ELSE n)

\* The outcome of an action that ran after get_active_page's outcome `gap`.
After(gap, ctxs, result, ops) ==
  Outcome([gap.st EXCEPT !.contexts = ctxs], result, gap.ops \o ops, gap.log)

\* navigate without the test of wait_until.
navigate_unvalidated(gap, h, page, kwargs) ==
  LET url == kwargs["url"]
      wait_until == Get(kwargs, "wait_until", "domcontentloaded")
      timeout == Get(kwargs, "timeout", 30000)
      ctxs == gap.st.contexts
      nav == <<Op("goto", h, <<url, wait_until, timeout>>)>>
  IN IF Missing(kwargs, "url", "")
     THEN After(gap, ctxs, Raise("ValueError", <<"URL required for navigate">>), <<>>)
     ELSE IF GotoRaises(url)
     THEN After(gap, ctxs, Raise("Error", <<"net::ERR_CONNECTION_REFUSED at ", url>>), nav)
     ELSE After(gap, SetPage(ctxs, h, goto(page, url)),
                Return([navigated_to |-> url, wait_until |-> wait_until,
                        timeout |-> timeout]),
                nav)

navigate(gap, h, page, kwargs) ==
  LET url == kwargs["url"]
      wait_until == Get(kwargs, "wait_until", "domcontentloaded")
      timeout == Get(kwargs, "timeout", 30000)
      ctxs == gap.st.contexts
      nav == <<Op("goto", h, <<url, wait_until, timeout>>)>>
  IN IF Missing(kwargs, "url", "")
     THEN After(gap, ctxs, Raise("ValueError", <<"URL required for navigate">>), <<>>)
     ELSE IF ~InList(wait_until, valid_wait_conditions)
     THEN After(gap, ctxs,
                Raise("ValueError", <<"Invalid wait_until: ", wait_until,
                                      ". Must be one of: ", valid_wait_conditions>>),
                <<>>)
     ELSE IF GotoRaises(url)
     THEN After(gap, ctxs, Raise("Error", <<"net::ERR_CONNECTION_REFUSED at ", url>>), nav)
     ELSE After(gap, SetPage(ctxs, h, goto(page, url)),
                Return([navigated_to |-> url, wait_until |-> wait_until,
                        timeout |-> timeout]),
                nav)

ThrowingExpression == "throw new Error()"

evaluate(gap, h, page, kwargs) ==
  LET expression == kwargs["expression"]
      ctxs == gap.st.contexts
      run == <<Op("evaluate", h, <<expression>>)>>
  IN IF Missing(kwargs, "expression", "")
     THEN After(gap, ctxs, Raise("ValueError", <<"Expression required for evaluate">>), <<>>)
     ELSE IF EvaluateRaises(page) \/ expression = ThrowingExpression
     THEN After(gap, ctxs, Raise("Error", <<"evaluate raised">>), run)
     ELSE After(gap, ctxs, Return(title(page)), run)

screenshot(gap, h, page, kwargs) ==
  LET path == Get(kwargs, "path", "screenshot_<timestamp>.png")
      full_page == Get(kwargs, "full_page", FALSE)
  IN After(gap, gap.st.contexts,
           Return([base64 |-> <<"base64 of ", page.url>>, path |-> path, size |-> 1]),
           <<Op("screenshot", h, <<full_page>>), Op("open.write", NoPage, <<path>>)>>)

get_content(gap, h, page, kwargs) ==
  LET probe == <<Op("evaluate", h, <<"document.body.innerText">>)>>
  IN IF EvaluateRaises(page)
     THEN After(gap, gap.st.contexts, Raise("Error", <<"evaluate raised">>), probe)
     ELSE After(gap, gap.st.contexts,
                Return([content |-> Slice(innerText(page), ContentLimit)]), probe)

click(gap, h, page, kwargs) ==
  LET target == IF ~Missing(kwargs, "target", <<>>) THEN kwargs["target"]
                ELSE kwargs["selector"]
      sc == smart_click(page, h, target)
      ctxs == gap.st.contexts
  IN IF Missing(kwargs, "target", <<>>) /\ Missing(kwargs, "selector", <<>>)
     THEN After(gap, ctxs,
                Raise("ValueError", <<"Target text or selector required for click">>), <<>>)
     ELSE After(gap, SetPage(ctxs, h, sc.page), sc.result, sc.ops)

\* fill without the test `value is None`: page.fill(selector, None) is issued.
fill_value_unchecked(gap, h, page, kwargs) ==
  LET selector == kwargs["selector"]
      value == Get(kwargs, "value", <<None>>)
      ctxs == gap.st.contexts
      typed == <<Op("fill", h, <<selector, value>>)>>
  IN IF Missing(kwargs, "selector", <<>>)
     THEN After(gap, ctxs, Raise("ValueError", <<"Selector and value required for fill">>), <<>>)
     ELSE IF selector \notin page.doc.elems \/ ~Given(kwargs, "value")
     THEN After(gap, ctxs, Raise("TimeoutError", <<"Timeout 30000ms exceeded">>), typed)
     ELSE After(gap, ctxs, Return([filled |-> selector, value |-> value]), typed)

fill(gap, h, page, kwargs) ==
  LET selector == kwargs["selector"]
      value == kwargs["value"]
      ctxs == gap.st.contexts
      typed == <<Op("fill", h, <<selector, value>>)>>
  IN IF Missing(kwargs, "selector", <<>>) \/ ~Given(kwargs, "value")
     THEN After(gap, ctxs, Raise("ValueError", <<"Selector and value required for fill">>), <<>>)
     ELSE IF selector \notin page.doc.elems
     THEN After(gap, ctxs, Raise("TimeoutError", <<"Timeout 30000ms exceeded">>), typed)
     ELSE After(gap, ctxs, Return([filled |-> selector, value |-> value]), typed)

\* A script is a sequence of tokens; one that calls RaisingCall fails.
PageCall == "await page."
RaisingCall == "boom()"

playwright_script(gap, h, page, kwargs) ==
  LET script == kwargs["script"]
      ctxs == gap.st.contexts
      exec == <<Op("exec", h, <<script>>)>>
  IN IF Missing(kwargs, "script", <<>>)
     THEN After(gap, ctxs, Raise("ValueError", <<"Playwright script required">>), <<>>)
     ELSE IF ~InList(PageCall, script)
     THEN After(gap, ctxs,
                Return([error |-> <<"Playwright script failed: ",
                                    "This tool is for Playwright API commands only">>]),
                <<>>)
     ELSE IF InList(RaisingCall, script)
     THEN After(gap, ctxs, Return([error |-> <<"Playwright script failed: ", "raised">>]), exec)
     ELSE After(gap, ctxs, Return([result |-> None, executed |-> TRUE]), exec)

\* execute_on_active_tab without the final else: an action it does not know
\* falls through and returns None.
execute_on_active_tab_lenient(st, action, kwargs) ==
  LET gap == get_active_page(st)
      h == gap.result.value
      page == PageAt(gap.st.contexts, h)
  IN IF Raised(gap.result) THEN gap
     ELSE CASE action = "navigate" -> navigate(gap, h, page, kwargs)
            [] action = "evaluate" -> evaluate(gap, h, page, kwargs)
            [] action = "screenshot" -> screenshot(gap, h, page, kwargs)
            [] action = "get_content" -> get_content(gap, h, page, kwargs)
            [] action = "click" -> click(gap, h, page, kwargs)
            [] action = "fill" -> fill(gap, h, page, kwargs)
            [] action = "playwright" -> playwright_script(gap, h, page, kwargs)
            [] OTHER -> After(gap, gap.st.contexts, Return(None), <<>>)

execute_on_active_tab(st, action, kwargs) ==
  LET gap == get_active_page(st)
      h == gap.result.value
      page == PageAt(gap.st.contexts, h)
  IN IF Raised(gap.result) THEN gap
     ELSE CASE action = "navigate" -> navigate(gap, h, page, kwargs)
            [] action = "evaluate" -> evaluate(gap, h, page, kwargs)
            [] action = "screenshot" -> screenshot(gap, h, page, kwargs)
            [] action = "get_content" -> get_content(gap, h, page, kwargs)
            [] action = "click" -> click(gap, h, page, kwargs)
            [] action = "fill" -> fill(gap, h, page, kwargs)
            [] action = "playwright" -> playwright_script(gap, h, page, kwargs)
            [] OTHER -> After(gap, gap.st.contexts,
                              Raise("ValueError", <<"Unknown action: ", action>>), <<>>)

----------------------------------------------------------------------------
(* call_tool *)

TextContent(text) == [type |-> "text", text |-> text]

ImageContent(data) == [type |-> "image", data |-> data, mimeType |-> "image/png"]

\* json.dumps(result, indent=2) of a dict, and of a string: the text opens
\* with a brace, or with a quote.
json_dumps_dict(result) == <<"{", result, "}">>
json_dumps_str(result) == <<"\"", result, "\"">>

ErrorMarker == "ERROR: "

\* except Exception as e: the error is logged and returned as text.
Caught(out) ==
  Outcome(out.st, Return(<<TextContent(<<ErrorMarker>> \o out.result.msg)>>), out.ops,
          out.log \o <<LogEntry("error", <<"Tool error: ">> \o out.result.msg)>>)

Returned(out, content) == Outcome(out.st, Return(content), out.ops, out.log)

\* A call that runs nothing of the proxy: its outcome on the state st.
Unmoved(st, result) == Outcome(st, result, <<>>, <<>>)

\* self.execute_on_active_tab(action, **arguments): a mapping that names
\* `action` gives the parameter two values.
execute_with(st, action, arguments) ==
  IF Given(arguments, "action")
  THEN Unmoved(st, Raise("TypeError", <<"got multiple values for argument 'action'">>))
  ELSE execute_on_active_tab(st, action, arguments)

\* The lines of the tab listing.
TabLines(tabs) ==
  <<"### Browser Tabs">>
  \o [i \in 1..Len(tabs) |->
        <<IF tabs[i].active THEN "eye " ELSE "  ", tabs[i].index, ": [",
          tabs[i].domain, "] ", tabs[i].title>>]

\* The branch of browser_tabs.
browser_tabs(st, arguments) ==
  LET action == Get(arguments, "action", "list")
      listing == list_all_tabs(st)
      index == arguments["index"]
      info == switch_to_tab(st, index)
  IN CASE action = "list" ->
            IF Raised(listing.result) THEN Caught(listing)
            ELSE Returned(listing, <<TextContent(TabLines(listing.result.value))>>)
       [] action = "switch" ->
            IF ~Given(arguments, "index")
            THEN Unmoved(st, Return(<<TextContent(<<ErrorMarker, "index required for switch">>)>>))
            ELSE IF Raised(info.result) THEN Caught(info)
            ELSE Returned(info, <<TextContent(<<"Switched to tab ", index, ": ",
                                                info.result.value.title>>)>>)
       [] OTHER -> Unmoved(st, Return(None))

\* The branch of browser_info.
browser_info(st) ==
  LET gap == get_active_page(st)
      h == gap.result.value
      page == PageAt(gap.st.contexts, h)
      asked == [gap EXCEPT !.ops = @ \o <<Op("evaluate", h, <<"page info">>)>>]
      listing == list_all_tabs(gap.st)
      info == [title |-> title(page), url |-> page.url, domain |-> domain(page),
               hasFocus |-> page.hasFocus, visible |-> page.visible,
               total_tabs |-> Len(listing.result.value),
               cdp_endpoint |-> cdp_endpoint]
  IN IF Raised(gap.result) THEN Caught(gap)
     ELSE IF EvaluateRaises(page)
     THEN Caught([asked EXCEPT !.result = Raise("Error", <<"evaluate raised">>)])
     ELSE Outcome(listing.st, Return(<<TextContent(json_dumps_dict(info))>>),
                  asked.ops \o listing.ops, asked.log \o listing.log)

\* The tools that pass their arguments to one action of the dispatcher.
ExecuteTools ==
  {"browser_navigate", "browser_evaluate", "browser_screenshot", "browser_get_content",
   "browser_click", "browser_fill", "browser_playwright"}

ActionOf(name) ==
  CASE name = "browser_navigate" -> "navigate"
    [] name = "browser_evaluate" -> "evaluate"
    [] name = "browser_screenshot" -> "screenshot"
    [] name = "browser_get_content" -> "get_content"
    [] name = "browser_click" -> "click"
    [] name = "browser_fill" -> "fill"
    [] name = "browser_playwright" -> "playwright"

\* What a tool returns for the result of its action.
ContentOf(name, result) ==
  CASE name = "browser_navigate" -> <<TextContent(<<"Navigated to ", result.navigated_to>>)>>
    [] name = "browser_evaluate" -> <<TextContent(json_dumps_str(result))>>
    [] name = "browser_screenshot" -> <<ImageContent(result.base64)>>
    [] name = "browser_get_content" ->
         <<TextContent(<<"Page content:\n">> \o result.content)>>
    [] OTHER -> <<TextContent(json_dumps_dict(result))>>

\* The reply of a tool whose action ended as `out`, with no except clause:
\* what was raised escapes.
ReplyUncaught(name, out) ==
  IF Raised(out.result) THEN out
  ELSE Returned(out, ContentOf(name, out.result.value))

\* The reply of a tool whose action ended as `out`.
Reply(name, out) ==
  IF Raised(out.result) THEN Caught(out)
  ELSE Returned(out, ContentOf(name, out.result.value))

\* call_tool that has no except clause around the actions.
call_tool_uncaught(st, name, arguments) ==
  IF name \in ExecuteTools
  THEN ReplyUncaught(name, execute_with(st, ActionOf(name), arguments))
  ELSE IF name = "browser_tabs" THEN browser_tabs(st, arguments)
  ELSE IF name = "browser_info" THEN browser_info(st)
  ELSE Unmoved(st, Return(<<TextContent(<<ErrorMarker, "Unknown tool: ", name>>)>>))

call_tool(st, name, arguments) ==
  IF name \in ExecuteTools
  THEN Reply(name, execute_with(st, ActionOf(name), arguments))
  ELSE IF name = "browser_tabs" THEN browser_tabs(st, arguments)
  ELSE IF name = "browser_info" THEN browser_info(st)
  ELSE Unmoved(st, Return(<<TextContent(<<ErrorMarker, "Unknown tool: ", name>>)>>))

----------------------------------------------------------------------------
(* cleanup, and the end of run *)

\* cleanup: the browser connection is closed, then the driver is stopped;
\* a close that raises ends it.
cleanup(st, closeRaises) ==
  LET close == IF st.browser # None THEN <<Op("browser.close", NoPage, <<>>)>> ELSE <<>>
      stop == IF st.playwright # None THEN <<Op("playwright.stop", NoPage, <<>>)>> ELSE <<>>
  IN IF st.browser # None /\ closeRaises
     THEN Outcome(st, Raise("Error", <<"close raised">>), close, <<>>)
     ELSE Outcome(st, Return(None), close \o stop, <<>>)

\* The finally clause of run, entered when server.serve() has returned or
\* has raised: the server task is cancelled, cleanup is awaited, and the
\* exception that is under way goes on.
run_finally(st, served, closeRaises) ==
  LET cleaned == cleanup(st, closeRaises)
      ops == <<Op("server_task.cancel", NoPage, <<>>), Op("cleanup", NoPage, <<>>)>>
             \o cleaned.ops
  IN Outcome(st,
             IF Raised(cleaned.result) THEN cleaned.result
             ELSE IF served = "raised" THEN Raise("Error", <<"serve raised">>)
             ELSE Return(None),
             ops, <<>>)

----------------------------------------------------------------------------
(* The state machine. *)

State ==
  [attributes |-> attributes, playwright |-> playwright, browser |-> browser,
   reachable |-> reachable, contexts |-> contexts]

Idle == [call |-> "idle"]

\* A call arrives when no other is being served, runs from the current state
\* with outcome `out`, and its observation stays until the caller takes it.
Observe(call, args, out) ==
  /\ last = Idle
  /\ attributes' = out.st.attributes
  /\ playwright' = out.st.playwright
  /\ browser' = out.st.browser
  /\ contexts' = out.st.contexts
  /\ UNCHANGED <<reachable, tasks>>
  /\ last' = [call |-> call, args |-> args, before |-> State,
              result |-> out.result, ops |-> out.ops, log |-> out.log]

CallGetBrowser == Observe("get_browser", <<>>, get_browser(State))

CallGetActivePage == Observe("get_active_page", <<>>, get_active_page(State))

SwitchIndexes == -1..MaxTabs

CallSwitchToTab ==
  \E index \in SwitchIndexes :
    Observe("switch_to_tab", <<index>>, switch_to_tab(State, index))

\* The keyword arguments a caller may pass: each name absent or one of `values`.
Opt(k, values) == {<<>>} \cup {k :> v : v \in values}
Both(A, B) == {a @@ b : a \in A, b \in B}

TextTarget == <<"O", "K">>

KwargsOf(action) ==
  CASE action = "navigate" ->
         Both(Opt("url", {Site, DownSite}), Opt("wait_until", {"invalid"}))
         \cup {"url" :> "", ("url" :> Site) @@ ("wait_until" :> "commit") @@ ("timeout" :> 5000)}
    [] action = "evaluate" -> Opt("expression", {"", "document.title", ThrowingExpression})
    [] action = "screenshot" -> Opt("full_page", {TRUE})
    [] action = "click" ->
         Both(Opt("target", {<<>>, TextTarget}), Opt("selector", {OkSelector}))
         \cup {"target" :> MissingSelector}
    [] action = "fill" ->
         Both(Opt("selector", {OkSelector, MissingSelector}), Opt("value", {<<>>}))
         \cup {("selector" :> <<>>) @@ ("value" :> <<"v">>)}
    [] action = "playwright" ->
         Opt("script", {<<"1 + 1">>, <<PageCall, "title()">>, <<PageCall, RaisingCall>>})
    [] action = "wait" -> Opt("timeout", {3000})
    [] OTHER -> {<<>>}

Actions ==
  {"navigate", "evaluate", "screenshot", "get_content", "click", "fill",
   "playwright", "wait", "scroll"}

CallExecuteOnActiveTab ==
  \E action \in Actions : \E kwargs \in KwargsOf(action) :
    Observe("execute_on_active_tab", <<action, kwargs>>,
            execute_on_active_tab(State, action, kwargs))

\* The server stops, normally or by an exception, and run ends.
Shutdown ==
  \E served \in {"returned", "raised"}, closeRaises \in BOOLEAN :
    Observe("run", <<served, closeRaises>>, run_finally(State, served, closeRaises))

\* The browser changes under the proxy: the user, or the pages themselves.
Changed(ctxs) ==
  /\ last = Idle
  /\ contexts' = ctxs
  /\ last' = Idle
  /\ UNCHANGED <<attributes, playwright, browser, reachable, tasks>>

Handles == {all_pages(contexts)[i] : i \in 1..PageCount(contexts)}

\* The user clicks a tab: it comes to the front, as with bring_to_front.
UserActivates ==
  \E h \in Handles : Changed(bring_to_front(contexts, h))

\* The user turns to another application: no page has the focus.
WindowBlurs ==
  Changed([c \in 1..Len(contexts) |->
             [i \in 1..Len(contexts[c]) |-> [contexts[c][i] EXCEPT !.hasFocus = FALSE]]])

PageBusyChanges ==
  \E h \in Handles :
    Changed(SetPage(contexts, h, [PageAt(contexts, h) EXCEPT !.busy = ~@]))

UserNavigates ==
  \E h \in Handles : \E url \in {Blank, Site} :
    Changed(SetPage(contexts, h, goto(PageAt(contexts, h), url)))

TabOpens ==
  \E c \in 1..Len(contexts) :
    /\ PageCount(contexts) < MaxTabs
    /\ Changed([contexts EXCEPT ![c] = Append(@, NewPage(Blank))])

Remove(seq, i) == SubSeq(seq, 1, i - 1) \o SubSeq(seq, i + 1, Len(seq))

TabCloses ==
  \E h \in Handles :
    Changed([contexts EXCEPT ![h[1]] = Remove(@, h[2])])

\* The endpoint goes down or comes up while the proxy is not attached to it.
EndpointChanges ==
  /\ last = Idle
  /\ browser = None
  /\ reachable' = ~reachable
  /\ last' = Idle
  /\ UNCHANGED <<attributes, playwright, browser, contexts, tasks>>

\* The caller takes the result of its call.
CallReturns ==
  /\ last # Idle
  /\ last.call # "run"
  /\ last' = Idle
  /\ UNCHANGED <<attributes, playwright, browser, reachable, contexts, tasks>>

Init ==
  /\ playwright = None
  /\ browser = None
  /\ reachable = TRUE
  /\ contexts = [c \in 1..MaxContexts |-> <<>>]
  /\ attributes = __init__
  /\ last = Idle
  /\ tasks = <<>>

Next ==
  \/ CallGetBrowser
  \/ CallGetActivePage
  \/ CallSwitchToTab
  \/ CallExecuteOnActiveTab
  \/ CallReturns
  \/ Shutdown
  \/ UserActivates
  \/ WindowBlurs
  \/ PageBusyChanges
  \/ UserNavigates
  \/ TabOpens
  \/ TabCloses
  \/ EndpointChanges

Spec == Init /\ [][Next]_vars

----------------------------------------------------------------------------
(* get_active_page on every browser of up to MaxPages pages: each page     *)
(* focused or not, visible or not, answering its probe or not.             *)

PageStates ==
  {[NewPage(Site) EXCEPT !.hasFocus = f, !.visible = v, !.busy = b] :
     f \in BOOLEAN, v \in BOOLEAN, b \in BOOLEAN}

RECURSIVE Sum(_, _)
Sum(sizes, c) == IF c = 0 THEN 0 ELSE sizes[c] + Sum(sizes, c - 1)

\* The flat list of pages cut into contexts of the given sizes.
Split(flat, sizes) ==
  [c \in 1..Len(sizes) |->
     SubSeq(flat, Sum(sizes, c - 1) + 1, Sum(sizes, c))]

InitResolve ==
  /\ \E n \in 0..MaxPages :
       \E flat \in [1..n -> PageStates] :
         \E sizes \in [1..MaxContexts -> 0..n] :
           /\ Sum(sizes, MaxContexts) = n
           /\ contexts = Split(flat, sizes)
  /\ \E proxy \in {<<None, None, TRUE>>, <<None, None, FALSE>>,
                     <<"Playwright", "Browser", TRUE>>} :
       /\ playwright = proxy[1]
       /\ browser = proxy[2]
       /\ reachable = proxy[3]
  /\ attributes = __init__
  /\ last = Idle
  /\ tasks = <<>>

CallListAllTabs == Observe("list_all_tabs", <<>>, list_all_tabs(State))

NextResolve ==
  \/ CallGetActivePage
  \/ CallListAllTabs
  \/ CallReturns

SpecResolve == InitResolve /\ [][NextResolve]_vars

----------------------------------------------------------------------------
(* smart_click on every document of up to MaxNodes text nodes. *)

NodeTexts == {<<"O", "K">>, <<" ", "O", "K", "!", " ">>, <<"N", "o">>}

\* Boxes in document coordinates: at the top of the window, below the fold,
\* at the end of the document, without area, and sticking out on either side.
Boxes ==
  {[x |-> 0, y |-> 0, w |-> 2, h |-> 2],
   [x |-> 0, y |-> 4, w |-> 2, h |-> 2],
   [x |-> 0, y |-> 10, w |-> 2, h |-> 2],
   [x |-> 0, y |-> 0, w |-> 0, h |-> 0],
   [x |-> 4, y |-> 0, w |-> 2, h |-> 2],
   [x |-> -2, y |-> 4, w |-> 2, h |-> 2]}

\* The parent element is as tall as its text, or is the whole document.
Parents(box) == {[y |-> box.y, h |-> box.h], [y |-> 0, h |-> scrollHeight]}

Nodes ==
  {[text |-> t, x |-> b[1].x, y |-> b[1].y, w |-> b[1].w, h |-> b[1].h, parent |-> b[2]] :
     t \in NodeTexts, b \in UNION {{<<box, p>> : p \in Parents(box)} : box \in Boxes}}

Targets ==
  {TextTarget, <<"O", "K", " ">>, OkSelector, MissingSelector, <<"a", " ", ">", " ", "b">>}

TheTab == <<1, 1>>

CallSmartClick ==
  \E target \in Targets :
    LET sc == smart_click(PageAt(contexts, TheTab), TheTab, target)
    IN Observe("smart_click", <<target>>,
               Outcome([State EXCEPT !.contexts = SetPage(contexts, TheTab, sc.page)],
                       sc.result, sc.ops, <<>>))

InitClick ==
  /\ playwright = "Playwright"
  /\ browser = "Browser"
  /\ reachable = TRUE
  /\ \E n \in 0..MaxNodes :
       \E nodes \in [1..n -> Nodes], scrollY \in {0, 4}, busy \in BOOLEAN :
         contexts = <<<<[NewPage(Site) EXCEPT
                           !.hasFocus = TRUE, !.visible = TRUE, !.busy = busy,
                           !.doc = [nodes |-> nodes, scrollY |-> scrollY,
                                    elems |-> {OkSelector}]]>>>>
  /\ attributes = __init__
  /\ last = Idle
  /\ tasks = <<>>

NextClick ==
  \/ CallSmartClick
  \/ CallReturns

SpecClick == InitClick /\ [][NextClick]_vars

----------------------------------------------------------------------------
(* smart_click on pages that stop answering at one step of the click, or   *)
(* do not answer from the start.                                           *)

Steps == {"scroll", "wait_for_timeout", "rescan", "mouse.click"}

InitClickFails ==
  /\ playwright = "Playwright"
  /\ browser = "Browser"
  /\ reachable = TRUE
  /\ \E n \in 0..MaxNodes :
       \E nodes \in [1..n -> Nodes], busy \in BOOLEAN, step \in Steps :
         contexts = <<<<[NewPage(Site) EXCEPT
                           !.hasFocus = TRUE, !.visible = TRUE, !.busy = busy,
                           !.failsAt = IF busy THEN "never" ELSE step,
                           !.doc = [nodes |-> nodes, scrollY |-> 0,
                                    elems |-> {OkSelector}]]>>>>
  /\ attributes = __init__
  /\ last = Idle
  /\ tasks = <<>>

SpecClickFails == InitClickFails /\ [][NextClick]_vars

----------------------------------------------------------------------------
(* get_content on pages whose body text is shorter than, as long as, and   *)
(* longer than the limit.                                                  *)

MaxBody == 6000

BodyLengths == {0, 1, ContentLimit - 1, ContentLimit, ContentLimit + 1, MaxBody}

\* A body text of n characters; the last one differs from the others.
Body(n) == [i \in 1..n |-> IF i = n THEN "$" ELSE IF i % 2 = 1 THEN "a" ELSE "b"]

BodyPage(n, focus, busy) ==
  [NewPage(Site) EXCEPT
     !.hasFocus = focus, !.visible = focus, !.busy = busy,
     !.doc = [nodes |-> IF n = 0 THEN <<>>
                        ELSE <<[text |-> Body(n), x |-> 0, y |-> 0, w |-> 2, h |-> 2,
                                parent |-> [y |-> 0, h |-> 2]]>>,
              scrollY |-> 0, elems |-> {}]]

InitContent ==
  /\ playwright = "Playwright"
  /\ browser = "Browser"
  /\ reachable = TRUE
  /\ \E n1 \in BodyLengths, n2 \in BodyLengths, focus \in 0..2, busy \in BOOLEAN,
        tabs \in 1..2 :
       contexts = <<SubSeq(<<BodyPage(n1, focus = 1, busy), BodyPage(n2, focus = 2, FALSE)>>,
                           1, tabs)>>
  /\ attributes = __init__
  /\ last = Idle
  /\ tasks = <<>>

CallGetContent ==
  Observe("execute_on_active_tab", <<"get_content", <<>>>>,
          execute_on_active_tab(State, "get_content", <<>>))

NextContent ==
  \/ CallGetContent
  \/ CallReturns

SpecContent == InitContent /\ [][NextContent]_vars

----------------------------------------------------------------------------
(* Two calls of execute_on_active_tab that run concurrently, a navigate    *)
(* and a get_content: each runs from one awaited driver operation to the   *)
(* next, and the other may run in between.                                 *)

NewTask(action, kwargs) ==
  [action |-> action, kwargs |-> kwargs, pc |-> "begin", pages |-> <<>>, i |-> 0,
   page |-> NoPage, result |-> None, ops |-> <<>>]

Finish(task, result) == [task EXCEPT !.pc = "done", !.result = result]

\* The task has issued the driver operation `op`.
Did(task, op) == [task EXCEPT !.ops = Append(@, op)]

\* A step of task t: its new position and locals, and what it did to the
\* proxy and to the browser.
Step(t, task, pw, br, ctxs) ==
  /\ tasks' = [tasks EXCEPT ![t] = task]
  /\ playwright' = pw
  /\ browser' = br
  /\ contexts' = ctxs
  /\ UNCHANGED <<attributes, reachable, last>>

\* get_active_page once get_browser has returned: the pages are listed, and
\* the first probe is awaited.
Enumerate(task) ==
  LET pages == all_pages(contexts)
      listed == Did(task, Op("contexts", NoPage, <<>>))
  IN IF pages = <<>>
     THEN Finish(listed, Raise("RuntimeError", <<"No pages open in browser">>))
     ELSE [listed EXCEPT !.pc = "probe", !.pages = pages, !.i = 1]

\* The call starts: with a cached connection it goes on to the first probe,
\* without one it awaits the driver or the attach.
Begins(t) ==
  /\ tasks[t].pc = "begin"
  /\ IF browser # None
     THEN Step(t, Enumerate(tasks[t]), playwright, browser, contexts)
     ELSE Step(t, [tasks[t] EXCEPT !.pc = IF playwright = None THEN "start" ELSE "connect"],
               playwright, browser, contexts)

\* async_playwright().start() returns.
DriverStarts(t) ==
  /\ tasks[t].pc = "start"
  /\ Step(t, Did([tasks[t] EXCEPT !.pc = "connect"],
                 Op("async_playwright.start", NoPage, <<>>)),
          "Playwright", browser, contexts)

\* connect_over_cdp returns, or raises.
Attaches(t) ==
  /\ tasks[t].pc = "connect"
  /\ LET attached == Did(tasks[t], Op("connect_over_cdp", NoPage, <<cdp_endpoint>>))
     IN IF reachable
        THEN Step(t, Enumerate(attached), playwright, "Browser", contexts)
        ELSE Step(t, Finish(attached, Raise("RuntimeError",
                                            <<"Cannot connect to browser at ", cdp_endpoint>>)),
                  playwright, browser, contexts)

\* execute_on_active_tab once the active page h is known, up to the page
\* operation it awaits.
Dispatch(task, h) ==
  LET kwargs == task.kwargs
  IN IF task.action = "navigate"
     THEN IF Missing(kwargs, "url", "")
          THEN Finish(task, Raise("ValueError", <<"URL required for navigate">>))
          ELSE IF ~InList(Get(kwargs, "wait_until", "domcontentloaded"), valid_wait_conditions)
          THEN Finish(task, Raise("ValueError",
                                  <<"Invalid wait_until: ", kwargs["wait_until"],
                                    ". Must be one of: ", valid_wait_conditions>>))
          ELSE [task EXCEPT !.pc = "goto", !.page = h]
     ELSE [task EXCEPT !.pc = "read", !.page = h]

\* The probe of page i returns or raises: the page is taken, or the next one
\* is probed, or the first page is taken for want of a focused one.
Probes(t) ==
  /\ tasks[t].pc = "probe"
  /\ LET h == tasks[t].pages[tasks[t].i]
         task == Did(tasks[t], ProbeOp(h))
         page == PageAt(contexts, h)
     IN Step(t, IF ~EvaluateRaises(page) /\ is_active(page) THEN Dispatch(task, h)
                ELSE IF task.i < Len(task.pages) THEN [task EXCEPT !.i = @ + 1]
                ELSE Dispatch(task, task.pages[1]),
             playwright, browser, contexts)

\* A page that navigates serves its old document and its new one at once.
NavigatingHalfLoaded(page, url) ==
  [page EXCEPT !.doc.nodes = @ \o SiteDoc(url).nodes]

\* A page that navigates does not answer scripts.
Navigating(page, url) == [page EXCEPT !.busy = TRUE]

\* page.goto issued on the page that has the focus when it is issued, not on
\* the page which the call resolved.
GotoStartsOnFocused(t) ==
  /\ tasks[t].pc = "goto"
  /\ LET url == tasks[t].kwargs["url"]
         focused == FocusScan(contexts, tasks[t].pages, 1)
         h == IF focused.found THEN focused.page ELSE tasks[t].pages[1]
         task == Did([tasks[t] EXCEPT !.page = h],
                     Op("goto", h,
                        <<url, Get(tasks[t].kwargs, "wait_until", "domcontentloaded"),
                          Get(tasks[t].kwargs, "timeout", 30000)>>))
     IN IF GotoRaises(url)
        THEN Step(t, Finish(task, Raise("Error", <<"net::ERR_CONNECTION_REFUSED at ", url>>)),
                  playwright, browser, contexts)
        ELSE Step(t, [task EXCEPT !.pc = "navigating"], playwright, browser,
                  SetPage(contexts, h, Navigating(PageAt(contexts, h), url)))

\* page.goto is under way, or has raised.
GotoStarts(t) ==
  /\ tasks[t].pc = "goto"
  /\ LET url == tasks[t].kwargs["url"]
         task == Did(tasks[t],
                     Op("goto", tasks[t].page,
                        <<url, Get(tasks[t].kwargs, "wait_until", "domcontentloaded"),
                          Get(tasks[t].kwargs, "timeout", 30000)>>))
     IN IF GotoRaises(url)
        THEN Step(t, Finish(task, Raise("Error", <<"net::ERR_CONNECTION_REFUSED at ", url>>)),
                  playwright, browser, contexts)
        ELSE Step(t, [task EXCEPT !.pc = "navigating"], playwright, browser,
                  SetPage(contexts, task.page,
                          Navigating(PageAt(contexts, task.page), url)))

\* page.goto returns: the page shows the new document.
GotoReturns(t) ==
  /\ tasks[t].pc = "navigating"
  /\ LET task == tasks[t]
         url == task.kwargs["url"]
     IN Step(t, Finish(task, Return([navigated_to |-> url,
                                     wait_until |-> Get(task.kwargs, "wait_until",
                                                        "domcontentloaded"),
                                     timeout |-> Get(task.kwargs, "timeout", 30000)])),
             playwright, browser,
             SetPage(contexts, task.page, goto(PageAt(contexts, task.page), url)))

\* The evaluate of get_content returns the body text, or raises.
Reads(t) ==
  /\ tasks[t].pc = "read"
  /\ LET task == Did(tasks[t], Op("evaluate", tasks[t].page, <<"document.body.innerText">>))
         page == PageAt(contexts, task.page)
     IN Step(t, Finish(task, IF EvaluateRaises(page)
                             THEN Raise("Error", <<"evaluate raised">>)
                             ELSE Return([content |-> Slice(innerText(page), ContentLimit)])),
             playwright, browser, contexts)

InitConcurrent ==
  /\ \E proxy \in {<<None, None, TRUE>>, <<None, None, FALSE>>,
                     <<"Playwright", None, TRUE>>, <<"Playwright", "Browser", TRUE>>} :
       /\ playwright = proxy[1]
       /\ browser = proxy[2]
       /\ reachable = proxy[3]
  /\ \E n \in 0..MaxTabs :
       \E urls \in [1..n -> {Blank, Site}], focus \in 0..n :
         contexts = <<[i \in 1..n |-> [NewPage(urls[i]) EXCEPT !.hasFocus = (i = focus),
                                                               !.visible = (i = focus)]]>>
                    \o [c \in 1..(MaxContexts - 1) |-> <<>>]
  /\ \E kwargs \in KwargsOf("navigate") :
       tasks = [nav |-> NewTask("navigate", kwargs), gc |-> NewTask("get_content", <<>>)]
  /\ attributes = __init__
  /\ last = [call |-> "gather", before |-> State]

NextConcurrent ==
  \E t \in {"nav", "gc"} :
    \/ Begins(t)
    \/ DriverStarts(t)
    \/ Attaches(t)
    \/ Probes(t)
    \/ GotoStarts(t)
    \/ GotoReturns(t)
    \/ Reads(t)

SpecConcurrent == InitConcurrent /\ [][NextConcurrent]_vars

----------------------------------------------------------------------------
(* call_tool on the browser of Spec: every tool, with the arguments of its *)
(* action, and names no tool has.                                          *)

Tools == ExecuteTools \cup {"browser_tabs", "browser_info", "browser_wait"}

ArgumentsOf(name) ==
  CASE name = "browser_navigate" -> KwargsOf("navigate") \cup {"action" :> "navigate"}
    [] name \in ExecuteTools -> KwargsOf(ActionOf(name))
    [] name = "browser_tabs" ->
         Opt("action", {"list", "switch", "close"})
         \cup {("action" :> "switch") @@ ("index" :> index) : index \in SwitchIndexes}
    [] OTHER -> {<<>>}

CallTool ==
  \E name \in Tools : \E arguments \in ArgumentsOf(name) :
    Observe("call_tool", <<name, arguments>>, call_tool(State, name, arguments))

NextBoundary ==
  \/ CallTool
  \/ CallReturns
  \/ UserActivates
  \/ WindowBlurs
  \/ PageBusyChanges
  \/ UserNavigates
  \/ TabOpens
  \/ TabCloses
  \/ EndpointChanges

SpecBoundary == Init /\ [][NextBoundary]_vars

----------------------------------------------------------------------------
(* A call of execute_on_active_tab that runs while the focus moves: by a   *)
(* concurrent call of switch_to_tab, and by the user.  The connection is   *)
(* cached, so both calls go straight to the pages.                         *)

\* switch_to_tab once get_browser has returned the cached connection: the
\* pages are listed and the index is tested; bring_to_front is awaited.
SwitchBegins(t) ==
  /\ tasks[t].pc = "begin"
  /\ browser # None
  /\ LET pages == all_pages(contexts)
         index == tasks[t].kwargs["index"]
         listed == Did(tasks[t], Op("contexts", NoPage, <<>>))
     IN Step(t, IF index < 0 \/ index >= Len(pages)
                THEN Finish(listed, Raise("ValueError",
                                          <<"Tab index ", index, " out of range (0-",
                                            Len(pages) - 1, ")">>))
                ELSE [listed EXCEPT !.pc = "front", !.page = pages[index + 1]],
             playwright, browser, contexts)

\* page.bring_to_front() takes effect and returns; the info probe is awaited.
Fronts(t) ==
  /\ tasks[t].pc = "front"
  /\ Step(t, Did([tasks[t] EXCEPT !.pc = "info"], Op("bring_to_front", tasks[t].page, <<>>)),
          playwright, browser, bring_to_front(contexts, tasks[t].page))

\* The info probe of switch_to_tab returns, or raises.
Informs(t) ==
  /\ tasks[t].pc = "info"
  /\ LET task == Did(tasks[t], Op("evaluate", tasks[t].page, <<"title, url">>))
         page == PageAt(contexts, task.page)
     IN Step(t, Finish(task, Return([title |-> IF EvaluateRaises(page) THEN <<"Unknown">>
                                               ELSE title(page),
                                     url |-> page.url])),
             playwright, browser, contexts)

InitFocus ==
  /\ playwright = "Playwright"
  /\ browser = "Browser"
  /\ reachable = TRUE
  /\ \E n \in 1..MaxTabs :
       \E focus \in 0..n, busy \in 0..n :
         contexts = <<[i \in 1..n |-> [NewPage(Site) EXCEPT !.hasFocus = (i = focus),
                                                            !.visible = (i = focus),
                                                            !.busy = (i = busy)]]>>
                    \o [c \in 1..(MaxContexts - 1) |-> <<>>]
  /\ \E action \in {"navigate", "get_content"}, index \in SwitchIndexes :
       tasks = [ex |-> NewTask(action, IF action = "navigate" THEN "url" :> Blank ELSE <<>>),
                sw |-> NewTask("switch_to_tab", "index" :> index)]
  /\ attributes = __init__
  /\ last = Idle

NextFocus ==
  \/ Begins("ex")
  \/ Probes("ex")
  \/ GotoStarts("ex")
  \/ GotoReturns("ex")
  \/ Reads("ex")
  \/ SwitchBegins("sw")
  \/ Fronts("sw")
  \/ Informs("sw")
  \/ UserActivates
  \/ WindowBlurs

SpecFocus == InitFocus /\ [][NextFocus]_vars

----------------------------------------------------------------------------
(* What the claims speak of, said without the proxy's own operators. *)

\* The proxy is attached to the browser, or can attach to it.
Attachable(before) == before.browser # None \/ before.reachable

HandlesOf(ctxs) == UNION {{<<c, i>> : i \in 1..Len(ctxs[c])} : c \in 1..Len(ctxs)}

\* The place of a page in the flattened enumeration: the pages of the
\* contexts before its own, then the pages before it in its context.
RECURSIVE PagesBefore(_, _)
PagesBefore(ctxs, c) == IF c <= 1 THEN 0 ELSE Len(ctxs[c - 1]) + PagesBefore(ctxs, c - 1)

Ordinal(ctxs, h) == PagesBefore(ctxs, h[1]) + h[2]

\* A page's probe reports focus and visibility: it answers, and both hold.
ReportsActive(page) == ~page.busy /\ page.hasFocus /\ page.visible

ActivePages(ctxs) == {h \in HandlesOf(ctxs) : ReportsActive(PageAt(ctxs, h))}

Resolved(call) == last.call = call /\ Attachable(last.before)

----------------------------------------------------------------------------
(* C1: when exactly one page of a non-empty page list reports focus and    *)
(* visibility, get_active_page returns that page, wherever it stands in    *)
(* the enumeration and whatever the other pages report.                    *)
C1_ReturnsTheOneActivePage ==
  Resolved("get_active_page") =>
    \A h \in HandlesOf(last.before.contexts) :
      ActivePages(last.before.contexts) = {h} => last.result = Return(h)

\* The one active page is not the first of the enumeration; the page before
\* it has the focus but is hidden, and the first page's probe raises.
C1_Witness ==
  /\ Resolved("get_active_page")
  /\ \E h \in HandlesOf(last.before.contexts) :
       /\ ActivePages(last.before.contexts) = {h}
       /\ Ordinal(last.before.contexts, h) = 3
       /\ \E g \in HandlesOf(last.before.contexts) :
            /\ Ordinal(last.before.contexts, g) = 2
            /\ PageAt(last.before.contexts, g).hasFocus
            /\ ~PageAt(last.before.contexts, g).busy
       /\ \E f \in HandlesOf(last.before.contexts) :
            /\ Ordinal(last.before.contexts, f) = 1
            /\ PageAt(last.before.contexts, f).busy
       /\ last.result = Return(h)

(* C2: when the page list is not empty and no page reports focus and       *)
(* visibility together, get_active_page returns the first page of the      *)
(* flattened enumeration, logs a warning, and raises nothing.              *)
C2_FallsBackToFirstPage ==
  Resolved("get_active_page") /\ HandlesOf(last.before.contexts) # {}
    /\ ActivePages(last.before.contexts) = {} =>
      /\ ~Raised(last.result)
      /\ Ordinal(last.before.contexts, last.result.value) = 1
      /\ \E i \in 1..Len(last.log) : last.log[i].level = "warning"

\* The fallback with an empty first context: the first page is in the second.
C2_Witness ==
  /\ Resolved("get_active_page")
  /\ ActivePages(last.before.contexts) = {}
  /\ Len(last.before.contexts[1]) = 0
  /\ Len(last.before.contexts[2]) >= 2
  /\ PageAt(last.before.contexts, <<2, 2>>).hasFocus
  /\ last.result = Return(<<2, 1>>)

(* C3: when no page exists in any context, get_active_page fails with the  *)
(* no-pages error, and so does every action run through                    *)
(* execute_on_active_tab, and no operation is issued on any page.          *)
C3_NoPagesError ==
  (Resolved("get_active_page") \/ Resolved("execute_on_active_tab"))
    /\ HandlesOf(last.before.contexts) = {} =>
      /\ last.result = Raise("RuntimeError", <<"No pages open in browser">>)
      /\ \A i \in 1..Len(last.ops) : last.ops[i].page = NoPage
      /\ contexts = last.before.contexts

\* A well-formed navigate request on a browser without pages.
C3_Witness ==
  /\ Resolved("execute_on_active_tab")
  /\ HandlesOf(last.before.contexts) = {}
  /\ last.args[1] = "navigate"
  /\ last.args[2] = ("url" :> Site)
  /\ Raised(last.result)
  /\ last.result.msg = <<"No pages open in browser">>

----------------------------------------------------------------------------
(* The text path of smart_click, said on the boxes of the text nodes. *)

HasArea(node) == node.w > 0 /\ node.h > 0

\* The node's box lies fully inside the window when the document is
\* scrolled to scrollY.
OnScreen(node, scrollY) ==
  /\ node.x >= 0
  /\ node.y - scrollY >= 0
  /\ node.x + node.w <= innerWidth
  /\ node.y - scrollY + node.h <= innerHeight

Center(node, scrollY) ==
  [x |-> node.x + node.w \div 2, y |-> node.y - scrollY + node.h \div 2]

\* The positive-area matches of the target, by their place in the document.
AreaMatches(doc, target) ==
  {i \in 1..Len(doc.nodes) : TextMatches(doc.nodes[i], target) /\ HasArea(doc.nodes[i])}

OnScreenMatches(doc, target) ==
  {i \in AreaMatches(doc, target) : OnScreen(doc.nodes[i], doc.scrollY)}

First(S) == CHOOSE m \in S : \A n \in S : m <= n

DocBefore == PageAt(last.before.contexts, TheTab).doc
DocAfter == PageAt(contexts, TheTab).doc

\* A smart_click call that took the text path on a page that answers scripts.
TextClick ==
  /\ last.call = "smart_click"
  /\ ~is_css_selector(last.args[1])
  /\ ~PageAt(last.before.contexts, TheTab).busy

OpNames(ops) == [i \in 1..Len(ops) |-> ops[i].op]

(* C4: in the text path, when some positive-area match of the target lies  *)
(* fully inside the viewport, the pointer click lands on the center of the *)
(* first such match in document order, also when off-screen matches come   *)
(* before it, and nothing is scrolled and nothing is scanned again.        *)
C4_ClicksFirstVisibleMatch ==
  TextClick /\ OnScreenMatches(DocBefore, last.args[1]) # {} =>
    LET target == last.args[1]
        node == DocBefore.nodes[First(OnScreenMatches(DocBefore, target))]
        at == Center(node, DocBefore.scrollY)
    IN /\ last.result = Return([clicked |-> target, method |-> "trusted_mouse_click",
                                coordinates |-> at])
       /\ last.ops = <<Op("evaluate", TheTab, <<"scan", target>>),
                       Op("mouse.click", TheTab, <<at.x, at.y>>)>>
       /\ DocAfter = DocBefore

\* An off-screen match with area comes first, the match in the viewport second.
C4_Witness ==
  /\ TextClick
  /\ AreaMatches(DocBefore, last.args[1]) = {1, 2}
  /\ OnScreenMatches(DocBefore, last.args[1]) = {2}
  /\ "coordinates" \in DOMAIN last.result.value
  /\ last.result.value.coordinates = Center(DocBefore.nodes[2], DocBefore.scrollY)

(* C5: in the text path, when the target has positive-area matches and all *)
(* of them are off-screen, the call scrolls once, waits, scans once more,  *)
(* and clicks once, at the place the first positive-area match has after   *)
(* the scroll.                                                             *)
C5_ScrollRescanClick ==
  TextClick /\ AreaMatches(DocBefore, last.args[1]) # {}
    /\ OnScreenMatches(DocBefore, last.args[1]) = {} =>
    LET target == last.args[1]
        node == DocAfter.nodes[First(AreaMatches(DocAfter, target))]
        at == Center(node, DocAfter.scrollY)
    IN /\ last.ops = <<Op("evaluate", TheTab, <<"scan", target>>),
                       Op("evaluate", TheTab, <<"scroll", target>>),
                       Op("wait_for_timeout", TheTab, <<500>>),
                       Op("evaluate", TheTab, <<"rescan", target>>),
                       Op("mouse.click", TheTab, <<at.x, at.y>>)>>
       /\ last.result = Return([clicked |-> target, method |-> "scroll_then_click",
                                coordinates |-> at])
       /\ DocAfter.nodes = DocBefore.nodes

\* The scroll moved the document, so the click is not where the first scan
\* saw the match.
C5_Witness ==
  /\ TextClick
  /\ AreaMatches(DocBefore, last.args[1]) # {}
  /\ OnScreenMatches(DocBefore, last.args[1]) = {}
  /\ DocAfter.scrollY # DocBefore.scrollY
  /\ "coordinates" \in DOMAIN last.result.value
  /\ last.result.value.coordinates =
       Center(DocBefore.nodes[First(AreaMatches(DocBefore, last.args[1]))], DocAfter.scrollY)
  /\ last.result.value.coordinates #
       Center(DocBefore.nodes[First(AreaMatches(DocBefore, last.args[1]))], DocBefore.scrollY)

(* C6: in the text path, when no text node matches the target with a       *)
(* positive area, the call returns an error payload that carries the exact *)
(* target text, and it neither clicks nor scrolls.                         *)
C6_NoMatchIsAnError ==
  TextClick /\ AreaMatches(DocBefore, last.args[1]) = {} =>
    /\ last.result = Return([error |-> <<"Could not find text: '", last.args[1], "'">>])
    /\ last.ops = <<Op("evaluate", TheTab, <<"scan", last.args[1]>>)>>
    /\ DocAfter = DocBefore

\* The only node that holds the text has no area.
C6_Witness ==
  /\ TextClick
  /\ last.args[1] = TextTarget
  /\ AreaMatches(DocBefore, TextTarget) = {}
  /\ \E i \in 1..Len(DocBefore.nodes) : TextMatches(DocBefore.nodes[i], TextTarget)
  /\ "error" \in DOMAIN last.result.value
  /\ last.result.value.error[2] = TextTarget

----------------------------------------------------------------------------
(* The dispatcher and the tab switch. *)

Executed(action) == last.call = "execute_on_active_tab" /\ last.args[1] = action

\* An active page resolves for the call: the browser can be attached to and
\* has a page.
ActivePageResolves == Attachable(last.before) /\ HandlesOf(last.before.contexts) # {}

WaitConditions == {"load", "domcontentloaded", "networkidle", "commit"}

OutOfEnum(kwargs) ==
  "wait_until" \in DOMAIN kwargs /\ kwargs["wait_until"] \notin WaitConditions

\* The parameter is not given, or is given empty.
Absent(kwargs, k, empty) == k \notin DOMAIN kwargs \/ kwargs[k] = empty

NoOp(names) == \A i \in 1..Len(last.ops) : last.ops[i].op \notin names

(* C7: a navigate call whose wait_until is not one of load,                *)
(* domcontentloaded, networkidle, commit fails, with an invalid-parameter  *)
(* error when an active page resolves for it, never issues page.goto, and  *)
(* leaves every page, the active page's URL included, as it was.           *)
C7_InvalidWaitUntilNavigatesNowhere ==
  Executed("navigate") /\ OutOfEnum(last.args[2]) =>
    /\ Raised(last.result)
    /\ NoOp({"goto"})
    /\ contexts = last.before.contexts
    /\ ActivePageResolves =>
         /\ last.result.type = "ValueError"
         /\ last.result.msg[1] \in {"Invalid wait_until: ", "URL required for navigate"}

\* The request names a good URL and a bad wait_until; the active page is at
\* about:blank, and stays there.
C7_Witness ==
  /\ Executed("navigate")
  /\ last.args[2] = ("url" :> Site) @@ ("wait_until" :> "invalid")
  /\ \E h \in ActivePages(last.before.contexts) :
       /\ PageAt(last.before.contexts, h).url = Blank
       /\ PageAt(contexts, h).url = Blank
  /\ Raised(last.result)
  /\ last.result.msg[1] = "Invalid wait_until: "
  /\ last.result.msg[2] = "invalid"

\* A request with a missing or out-of-enum required parameter, or a tab
\* switch with an index outside the page list.
InvalidRequest ==
  \/ /\ Executed("navigate")
     /\ Absent(last.args[2], "url", "") \/ OutOfEnum(last.args[2])
  \/ /\ Executed("evaluate")
     /\ Absent(last.args[2], "expression", "")
  \/ /\ Executed("click")
     /\ Absent(last.args[2], "target", <<>>)
     /\ Absent(last.args[2], "selector", <<>>)
  \/ /\ Executed("fill")
     /\ Absent(last.args[2], "selector", <<>>) \/ "value" \notin DOMAIN last.args[2]
  \/ /\ last.call = "switch_to_tab"
     /\ \/ last.args[1] < 0
        \/ last.args[1] >= Cardinality(HandlesOf(last.before.contexts))

(* C8, as claimed: parameter and index errors are raised before any        *)
(* connection attempt, page enumeration or in-page probe is issued.        *)
C8_ErrorsBeforeTheBrowserIsTouched ==
  InvalidRequest => Raised(last.result) /\ last.ops = <<>>

ResolutionOps(ops) ==
  \A i \in 1..Len(ops) :
    \/ ops[i].op \in {"async_playwright.start", "connect_over_cdp", "contexts"}
    \/ ops[i].op = "evaluate" /\ ops[i].args = <<"hasFocus && visible">>

(* C8, amended: parameter and index errors are raised before any operation *)
(* of the requested action is issued, after the browser has been touched:  *)
(* for navigate, evaluate, click and fill after the active tab has been    *)
(* resolved (connection attempt, page enumeration, focus probes), for      *)
(* switch_to_tab after the connection attempt and the page enumeration.    *)
(* The call fails and changes no page.                                     *)
C8_ErrorsBeforeThePageOperation ==
  InvalidRequest =>
    /\ Raised(last.result)
    /\ ResolutionOps(last.ops)
    /\ last.call = "switch_to_tab" => NoOp({"evaluate"})
    /\ contexts = last.before.contexts
    /\ ActivePageResolves => last.result.type = "ValueError"

\* An out-of-enum wait_until reported after the proxy attached, listed the
\* pages and probed two of them.
C8_Witness ==
  /\ Executed("navigate")
  /\ OutOfEnum(last.args[2])
  /\ last.before.browser = None
  /\ last.result.type = "ValueError"
  /\ OpNames(last.ops) = <<"async_playwright.start", "connect_over_cdp", "contexts",
                           "evaluate", "evaluate">>

(* C9: switch_to_tab(index) with index < 0 or index >= pageCount fails     *)
(* with an error that reports the index and the range 0..pageCount-1, and  *)
(* brings no page to the front; with an index inside the range it brings   *)
(* the page at that ordinal of the flattened enumeration, and no other, to *)
(* the front.                                                              *)
C9_SwitchChecksTheIndex ==
  Resolved("switch_to_tab") =>
    LET ctxs == last.before.contexts
        index == last.args[1]
        pageCount == Cardinality(HandlesOf(ctxs))
    IN IF index < 0 \/ index >= pageCount
       THEN /\ last.result = Raise("ValueError", <<"Tab index ", index, " out of range (0-",
                                                   pageCount - 1, ")">>)
            /\ NoOp({"bring_to_front"})
            /\ contexts = ctxs
       ELSE /\ ~Raised(last.result)
            /\ \E h \in HandlesOf(ctxs) :
                 /\ Ordinal(ctxs, h) = index + 1
                 /\ OpsNamed(last.ops, {"bring_to_front"}) = <<Op("bring_to_front", h, <<>>)>>
                 /\ PageAt(contexts, h).hasFocus
                 /\ PageAt(contexts, h).visible

\* The first index past the end of a list of two pages.
C9_Witness ==
  /\ Resolved("switch_to_tab")
  /\ Cardinality(HandlesOf(last.before.contexts)) = 2
  /\ last.args[1] = 2
  /\ Raised(last.result)
  /\ last.result.msg = <<"Tab index ", 2, " out of range (0-", 1, ")">>

(* C10: execute_on_active_tab("wait", timeout) is accepted by the          *)
(* dispatcher and returns success.                                         *)
C10_WaitIsAccepted ==
  Executed("wait") /\ ActivePageResolves => ~Raised(last.result)

\* The actions execute_on_active_tab has a branch for.
Vocabulary ==
  {"navigate", "evaluate", "screenshot", "get_content", "click", "fill", "playwright"}

(* C11: an action name outside the dispatcher's vocabulary fails; when an  *)
(* active page resolves for the call the error is the unknown-action error *)
(* naming that action; the only operations issued for it are those of the  *)
(* active-tab resolution, and no page changes.                             *)
C11_UnknownActionFails ==
  last.call = "execute_on_active_tab" /\ last.args[1] \notin Vocabulary =>
    /\ Raised(last.result)
    /\ ResolutionOps(last.ops)
    /\ contexts = last.before.contexts
    /\ ActivePageResolves =>
         last.result = Raise("ValueError", <<"Unknown action: ", last.args[1]>>)

\* "scroll" asked of a browser with a focused page: the probe is issued, the
\* error names the action.
C11_Witness ==
  /\ Executed("scroll")
  /\ ActivePages(last.before.contexts) # {}
  /\ last.result.msg = <<"Unknown action: ", "scroll">>
  /\ \E i \in 1..Len(last.ops) : last.ops[i].op = "evaluate"

----------------------------------------------------------------------------
(* The boundary. *)

Called(name) == last.call = "call_tool" /\ last.args[1] = name

\* The one content item of a reply is a text that opens with `first`.
TextOpening(first) ==
  /\ last.result.value # None
  /\ Len(last.result.value) = 1
  /\ last.result.value[1].type = "text"
  /\ last.result.value[1].text[1] = first

\* A required parameter of the action is missing, or out of its enumeration.
BadParameters(action, kwargs) ==
  CASE action = "navigate" -> Absent(kwargs, "url", "") \/ OutOfEnum(kwargs)
    [] action = "evaluate" -> Absent(kwargs, "expression", "")
    [] action = "click" -> Absent(kwargs, "target", <<>>) /\ Absent(kwargs, "selector", <<>>)
    [] action = "fill" -> Absent(kwargs, "selector", <<>>) \/ "value" \notin DOMAIN kwargs
    [] action = "playwright" -> Absent(kwargs, "script", <<>>)
    [] OTHER -> FALSE

Has(kwargs, k, v) == k \in DOMAIN kwargs /\ kwargs[k] = v

\* The failures that reach call_tool as exceptions: no connection, no pages,
\* a bad parameter, an index out of range, a page operation that raised.
RaisedFailure ==
  LET name == last.args[1]
      arguments == last.args[2]
      before == last.before
      pageCount == Cardinality(HandlesOf(before.contexts))
  IN /\ last.call = "call_tool"
     /\ \/ /\ ~Attachable(before)
           /\ \/ name \in ExecuteTools \cup {"browser_info"}
              \/ name = "browser_tabs" /\ "action" \notin DOMAIN arguments
              \/ name = "browser_tabs" /\ Has(arguments, "action", "list")
              \/ /\ name = "browser_tabs" /\ Has(arguments, "action", "switch")
                 /\ "index" \in DOMAIN arguments
        \/ pageCount = 0 /\ name \in ExecuteTools \cup {"browser_info"}
        \/ name \in ExecuteTools /\ BadParameters(ActionOf(name), arguments)
        \/ /\ name = "browser_tabs" /\ Has(arguments, "action", "switch")
           /\ "index" \in DOMAIN arguments
           /\ arguments["index"] < 0 \/ arguments["index"] >= pageCount
        \/ /\ name = "browser_navigate" /\ Has(arguments, "url", DownSite)
           /\ ~OutOfEnum(arguments)
        \/ name = "browser_evaluate" /\ Has(arguments, "expression", ThrowingExpression)
        \/ /\ name = "browser_fill" /\ Has(arguments, "selector", MissingSelector)
           /\ "value" \in DOMAIN arguments

\* The failures of a click or of a script on a page that was resolved: the
\* selector matches nothing, the script's call raises.
CaughtFailure ==
  /\ last.call = "call_tool"
  /\ Attachable(last.before)
  /\ HandlesOf(last.before.contexts) # {}
  /\ \/ Called("browser_click") /\ Has(last.args[2], "target", MissingSelector)
     \/ Called("browser_playwright") /\ Has(last.args[2], "script", <<PageCall, RaisingCall>>)

(* C12, as claimed: call_tool lets no exception escape, and every failure,  *)
(* a failed page operation included, comes back as a text that begins with *)
(* the error marker.                                                       *)
C12_EveryFailureCarriesTheMarker ==
  /\ last.call = "call_tool" => ~Raised(last.result)
  /\ RaisedFailure \/ CaughtFailure => TextOpening(ErrorMarker)

(* C12, amended: call_tool lets no exception escape and the server goes on *)
(* to the next call; every failure that is raised under it (connection     *)
(* error, no pages, invalid parameter, index out of range, a navigation,   *)
(* evaluation or fill that raised) comes back as one text that begins with *)
(* the error marker; the failure of a click or of a Playwright script,     *)
(* which these actions catch themselves, comes back as the JSON text of    *)
(* their error payload, without the marker.                                *)
C12_RaisedFailuresCarryTheMarker ==
  /\ last.call = "call_tool" => ~Raised(last.result) /\ ENABLED CallReturns
  /\ RaisedFailure => TextOpening(ErrorMarker)
  /\ CaughtFailure =>
       /\ TextOpening("{")
       /\ "error" \in DOMAIN last.result.value[1].text[2]

\* A navigation that the site refuses, reported with the marker after the
\* goto was issued.
C12_Witness ==
  /\ Called("browser_navigate")
  /\ Has(last.args[2], "url", DownSite)
  /\ \E i \in 1..Len(last.ops) : last.ops[i].op = "goto"
  /\ TextOpening(ErrorMarker)
  /\ last.result.value[1].text[2] = "net::ERR_CONNECTION_REFUSED at "

\* The reply describes an error: a text with the marker, or the JSON text of
\* a payload with an error key.
ErrorDescription ==
  \/ TextOpening(ErrorMarker)
  \/ TextOpening("{") /\ "error" \in DOMAIN last.result.value[1].text[2]

(* C13: every call of call_tool returns a result, one content item that is *)
(* either a success payload or an error description, for every tool name   *)
(* and every argument mapping, browser_tabs with an action that is neither *)
(* list nor switch included.                                               *)
C13_EveryCallHasAResult ==
  last.call = "call_tool" =>
    /\ ~Raised(last.result)
    /\ last.result.value # None
    /\ Len(last.result.value) = 1
    /\ ErrorDescription =>
         \/ TextOpening(ErrorMarker)
         \/ DOMAIN last.result.value[1].text[2] = {"error"}

----------------------------------------------------------------------------
(* The connection. *)

AttachOps == OpsNamed(last.ops, {"connect_over_cdp"})

\* The call is one of those that begin with get_browser.
Connects == last.call \in {"get_browser", "get_active_page", "switch_to_tab",
                           "execute_on_active_tab"}

(* C14: once a connection is cached, every later call of get_browser, made *)
(* directly or by another method, in any sequence of calls, returns the    *)
(* cached handle, initialises no driver and attempts no attach; the cache  *)
(* keeps the handle.                                                       *)
C14_CachedConnectionIsReused ==
  Connects /\ last.before.browser # None =>
    /\ NoOp({"async_playwright.start", "connect_over_cdp"})
    /\ browser = last.before.browser
    /\ playwright = last.before.playwright
    /\ last.call = "get_browser" =>
         last.result = Return(last.before.browser) /\ last.ops = <<>>

\* get_browser called with the connection cached.
C14_Witness ==
  /\ last.call = "get_browser"
  /\ last.before.browser = "Browser"
  /\ last.result = Return("Browser")
  /\ last.ops = <<>>

(* C15: no call attempts to attach more than once; a call whose attach     *)
(* attempt fails makes exactly one attempt, raises the connection error    *)
(* with the endpoint address in its message and leaves no connection       *)
(* cached, so that the next call makes its own attempt.                    *)
C15_OneAttachAttemptPerCall ==
  Connects =>
    /\ Len(AttachOps) <= 1
    /\ last.before.browser = None =>
         /\ Len(AttachOps) = 1
         /\ AttachOps[1].args = <<cdp_endpoint>>
         /\ ~last.before.reachable =>
              /\ last.result = Raise("RuntimeError",
                                     <<"Cannot connect to browser at ", cdp_endpoint>>)
              /\ browser = None

\* A second failed attempt: the driver was started by an earlier call, whose
\* attach failed too.
C15_Witness ==
  /\ last.call = "get_browser"
  /\ last.before.browser = None
  /\ last.before.playwright # None
  /\ ~last.before.reachable
  /\ OpNames(last.ops) = <<"connect_over_cdp">>
  /\ Raised(last.result)
  /\ browser = None

----------------------------------------------------------------------------
(* The tab listing. *)

(* C16: list_all_tabs returns one entry per open page, in the order of the *)
(* flattened enumeration, with index the page's ordinal counted from 0 and *)
(* url the page's URL; a page whose probe fails has a placeholder entry    *)
(* with active false; an entry is active only when the page's probe        *)
(* reported both focus and visibility; every page is probed once, in that  *)
(* order.                                                                  *)
C16_OneEntryPerPage ==
  Resolved("list_all_tabs") =>
    LET ctxs == last.before.contexts
        tabs == last.result.value
    IN /\ ~Raised(last.result)
       /\ Len(tabs) = Cardinality(HandlesOf(ctxs))
       /\ \A h \in HandlesOf(ctxs) :
            LET entry == tabs[Ordinal(ctxs, h)]
                page == PageAt(ctxs, h)
            IN /\ entry.index = Ordinal(ctxs, h) - 1
               /\ entry.url = page.url
               /\ entry.active => ReportsActive(page)
               /\ page.busy => ~entry.active /\ entry.title = <<"(Loading...)">>
               /\ ~page.busy => entry.title # <<"(Loading...)">>
               /\ OpsNamed(last.ops, {"evaluate"})[Ordinal(ctxs, h)].page = h

\* Three pages in two contexts: the first does not answer, the last is the
\* active one.
C16_Witness ==
  /\ Resolved("list_all_tabs")
  /\ Len(last.before.contexts[1]) = 1
  /\ Len(last.before.contexts[2]) = 2
  /\ PageAt(last.before.contexts, <<1, 1>>).busy
  /\ PageAt(last.before.contexts, <<1, 1>>).hasFocus
  /\ Len(last.result.value) = 3
  /\ ~last.result.value[1].active
  /\ ~last.result.value[2].active
  /\ last.result.value[3].active

----------------------------------------------------------------------------
(* Failures of a click. *)

\* The step an operation of smart_click belongs to.
StepOf(op) == IF op.op = "evaluate" THEN op.args[1] ELSE op.op

PageBefore == PageAt(last.before.contexts, TheTab)

\* The click reached the step at which the page stops answering.
ReachedFailingStep ==
  \E i \in 1..Len(last.ops) : StepOf(last.ops[i]) = PageBefore.failsAt

(* C17: smart_click raises for no target: a native click that fails on the *)
(* selector path is returned as an error payload that names the selector;  *)
(* on the text path a scan, scroll, settle wait, re-scan or pointer click  *)
(* that fails is returned as an error payload, and is the last operation   *)
(* of the call.                                                            *)
C17_SmartClickNeverRaises ==
  last.call = "smart_click" =>
    LET target == last.args[1]
        payload == last.result.value
    IN /\ ~Raised(last.result)
       /\ is_css_selector(target) /\ target \notin PageBefore.doc.elems =>
            /\ DOMAIN payload = {"error"}
            /\ payload.error[1] = "Could not click "
            /\ payload.error[2] = target
       /\ ~is_css_selector(target) /\ (PageBefore.busy \/ ReachedFailingStep) =>
            /\ DOMAIN payload = {"error"}
            /\ StepOf(last.ops[Len(last.ops)]) \in {"scan", PageBefore.failsAt}

\* The pointer click fails after the scroll and the re-scan.
C17_Witness ==
  /\ last.call = "smart_click"
  /\ OpNames(last.ops) = <<"evaluate", "evaluate", "wait_for_timeout", "evaluate",
                           "mouse.click">>
  /\ PageBefore.failsAt = "mouse.click"
  /\ last.result = Return(ClickFailed)

----------------------------------------------------------------------------
(* The content of a page. *)

\* The page a call works on: the first one that reports focus and
\* visibility, or the first page when none does.
ActivePageOf(ctxs) ==
  LET candidates == IF ActivePages(ctxs) = {} THEN HandlesOf(ctxs) ELSE ActivePages(ctxs)
  IN CHOOSE h \in candidates : \A g \in candidates : Ordinal(ctxs, h) <= Ordinal(ctxs, g)

(* C18: get_content returns the first 5000 characters of the active page's *)
(* body text when the text is longer than 5000 characters, the whole text  *)
(* when it is not, and nothing after them.                                 *)
C18_ContentIsTheFirst5000Characters ==
  Executed("get_content") /\ ~Raised(last.result) =>
    LET text == innerText(PageAt(last.before.contexts, ActivePageOf(last.before.contexts)))
        content == last.result.value.content
    IN /\ DOMAIN last.result.value = {"content"}
       /\ Len(text) > 5000 =>
            /\ Len(content) = 5000
            /\ \A i \in 1..5000 : content[i] = text[i]
       /\ Len(text) <= 5000 => content = text

\* A body of 6000 characters comes back as its first 5000.
C18_Witness ==
  /\ Executed("get_content")
  /\ ~Raised(last.result)
  /\ Len(innerText(PageAt(last.before.contexts, ActivePageOf(last.before.contexts)))) = 6000
  /\ Len(last.result.value.content) = 5000
  /\ last.result.value.content[5000] = "b"

----------------------------------------------------------------------------
(* Concurrent calls. *)

Returns(t) == tasks[t].pc = "done" /\ ~Raised(tasks[t].result)

\* The first 5000 characters of a text.
FirstCharacters(text) == SubSeq(text, 1, IF Len(text) < 5000 THEN Len(text) ELSE 5000)

\* The body text of the page which the URL serves.
TextAt(url) == innerTextFrom(SiteDoc(url).nodes, 1)

----------------------------------------------------------------------------
(* Shutdown. *)

(* C20: when the server stops, normally or by an exception, cleanup runs   *)
(* once and releases the cached browser connection and the driver handle   *)
(* whenever they exist, the driver handle also when the release of the     *)
(* browser connection fails.                                               *)
C20_ShutdownReleasesBoth ==
  last.call = "run" =>
    /\ Len(OpsNamed(last.ops, {"cleanup"})) = 1
    /\ Len(OpsNamed(last.ops, {"browser.close"}))
         = IF last.before.browser # None THEN 1 ELSE 0
    /\ Len(OpsNamed(last.ops, {"playwright.stop"}))
         = IF last.before.playwright # None THEN 1 ELSE 0

----------------------------------------------------------------------------
(* What the proxy keeps from one call to the next. *)

\* The operations of a call on a page that are not probes of the active-tab
\* resolution or of the tab listing.
ActionOps(ops) ==
  {i \in 1..Len(ops) :
     /\ ops[i].page # NoPage
     /\ ops[i].op = "evaluate" =>
          ops[i].args[1] \notin {"hasFocus && visible",
                                 "title, url, hasFocus, visible, domain"}}

\* A tool that works on the active page is called on a browser with pages.
WorksOnActivePage ==
  /\ last.call = "call_tool"
  /\ last.args[1] \in ExecuteTools \cup {"browser_info"}
  /\ HandlesOf(last.before.contexts) # {}

(* C21: no call changes an attribute of the proxy other than the cached    *)
(* driver and connection handles, and the page a tool works on is          *)
(* determined by the state of the browser at the call alone: the first     *)
(* page that reports focus and visibility, else the first page, whatever   *)
(* calls came before.                                                      *)
C21_NoCrossCallState ==
  /\ attributes = __init__
  /\ WorksOnActivePage =>
       \A i \in ActionOps(last.ops) :
         last.ops[i].page = ActivePageOf(last.before.contexts)

\* A navigation on the second tab, which the user brought to the front,
\* by a proxy that has served calls before.
C21_Witness ==
  /\ WorksOnActivePage
  /\ last.args[1] = "browser_navigate"
  /\ last.before.browser # None
  /\ Cardinality(HandlesOf(last.before.contexts)) = 2
  /\ Ordinal(last.before.contexts, ActivePageOf(last.before.contexts)) = 2
  /\ \E i \in 1..Len(last.ops) :
       last.ops[i].op = "goto" /\ Ordinal(last.before.contexts, last.ops[i].page) = 2
  /\ attributes = __init__

----------------------------------------------------------------------------
(* The connection under concurrent calls. *)

\* The operations of the given names which the concurrent calls have issued.
IssuedByAll(names) == OpsNamed(tasks.nav.ops \o tasks.gc.ops, names)

(* C22: under every interleaving of concurrent calls, two calls that race  *)
(* on first use included, the driver is started at most once and a         *)
(* successful attach happens at most once, so that the cache holds every   *)
(* driver and every connection there is.                                   *)
C22_EstablishedOnce ==
  last.call = "gather" =>
    /\ Len(IssuedByAll({"async_playwright.start"})) <= 1
    /\ reachable => Len(IssuedByAll({"connect_over_cdp"})) <= 1

----------------------------------------------------------------------------
(* The target of a call while the focus moves. *)

\* The step at which the call issues its page operation.
Issues == tasks.ex.pc \in {"goto", "read"} /\ tasks'.ex.pc # tasks.ex.pc

\* The step at which the resolution of the active page ends with a page.
Resolves == tasks.ex.pc = "probe" /\ tasks'.ex.pc \in {"goto", "read"}

\* The operation a task issued last.
LastOp(task) == task.ops[Len(task.ops)]

(* C23, as claimed: at the moment execute_on_active_tab issues its page    *)
(* operation, the page it targets is the page that satisfies the           *)
(* active-tab rule at that moment, also when the focus has changed since   *)
(* the resolution probe.                                                   *)
C23_TargetIsActiveAtTheOperation ==
  [][Issues => LastOp(tasks'.ex).page = ActivePageOf(contexts)]_vars

(* C23, amended: the page operation goes to the page which the call's own  *)
(* resolution returned: a page that reported focus and visibility at the   *)
(* moment it was probed, or the first page when the last page's probe      *)
(* reported none; a change of focus after that does not change the target. *)
C23_TargetIsThePageResolved ==
  [][/\ Resolves =>
          LET probed == tasks.ex.pages[tasks.ex.i]
          IN \/ /\ tasks'.ex.page = probed
                /\ ReportsActive(PageAt(contexts, probed))
             \/ /\ tasks'.ex.page = tasks.ex.pages[1]
                /\ tasks.ex.i = Len(tasks.ex.pages)
                /\ ~ReportsActive(PageAt(contexts, probed))
     /\ Issues =>
          /\ LastOp(tasks'.ex).page = tasks.ex.page
          /\ tasks'.ex.page = tasks.ex.page
          /\ LastOp(tasks'.ex).op \in {"goto", "evaluate"}]_vars

\* The navigation is under way on the first tab, which the call resolved
\* by its probe, after switch_to_tab has brought the second tab to the front.
C23_Witness ==
  /\ tasks # <<>>
  /\ "ex" \in DOMAIN tasks
  /\ tasks.ex.pc = "navigating"
  /\ tasks.ex.page = <<1, 1>>
  /\ tasks.ex.ops = <<Op("contexts", NoPage, <<>>), ProbeOp(<<1, 1>>),
                      Op("goto", <<1, 1>>, <<Blank, "domcontentloaded", 30000>>)>>
  /\ tasks.sw.pc = "done"
  /\ tasks.sw.page = <<1, 2>>
  /\ ActivePageOf(contexts) = <<1, 2>>

----------------------------------------------------------------------------
(* The off-screen path of smart_click. *)

\* The text path with positive-area matches, none of them inside the viewport.
OffScreenClick ==
  /\ TextClick
  /\ AreaMatches(DocBefore, last.args[1]) # {}
  /\ OnScreenMatches(DocBefore, last.args[1]) = {}

(* C24: in the off-screen path the element scrolled into view is the       *)
(* parent element of the match which the first scan selected, the earliest *)
(* positive-area match of the target in document order, also when matches  *)
(* without area come before it in the document.                            *)
C24_ScrollsTheMatchedElement ==
  OffScreenClick =>
    LET matched == DocBefore.nodes[First(AreaMatches(DocBefore, last.args[1]))]
    IN DocAfter = scrollIntoView(DocBefore, matched)

\* The pointer clicks of the call.
PointerClicks == OpsNamed(last.ops, {"mouse.click"})

(* C26: every pointer click of the text path lands inside the viewport as  *)
(* it is at the click, 0 <= x <= width and 0 <= y <= height, on the direct *)
(* path and on the path that scrolls first; and a call clicks at most      *)
(* once.                                                                   *)
C26_ClicksLandInTheViewport ==
  last.call = "smart_click" /\ ~is_css_selector(last.args[1]) =>
    /\ Len(PointerClicks) <= 1
    /\ \A i \in 1..Len(PointerClicks) :
         /\ 0 <= PointerClicks[i].args[1] /\ PointerClicks[i].args[1] <= innerWidth
         /\ 0 <= PointerClicks[i].args[2] /\ PointerClicks[i].args[2] <= innerHeight

----------------------------------------------------------------------------
(* Probes that throw. *)

\* The pages whose probe throws.
Throwing(ctxs) == {h \in HandlesOf(ctxs) : PageAt(ctxs, h).busy}

\* The focus probes of the call, in the order they were issued.
FocusProbes == OpsNamed(last.ops, {"evaluate"})

(* C25: in get_active_page's scan a page whose probe throws counts as not  *)
(* matching and the scan goes on with the next page: the call does not     *)
(* fail for it, a focused-and-visible page after it is still returned, and *)
(* when every probe throws the first page is returned.                     *)
C25_ThrowingProbeIsSkipped ==
  Resolved("get_active_page") /\ Throwing(last.before.contexts) # {} =>
    LET ctxs == last.before.contexts
    IN /\ ~Raised(last.result)
       /\ last.result.value = ActivePageOf(ctxs)
       /\ Throwing(ctxs) = HandlesOf(ctxs) => Ordinal(ctxs, last.result.value) = 1
       /\ Len(FocusProbes) = IF ActivePages(ctxs) = {} THEN Cardinality(HandlesOf(ctxs))
                             ELSE Ordinal(ctxs, last.result.value)
       /\ \A i \in 1..Len(FocusProbes) : Ordinal(ctxs, FocusProbes[i].page) = i

\* Two pages whose probes throw, the first of them focused and visible,
\* stand before the page that is returned.
C25_Witness ==
  /\ Resolved("get_active_page")
  /\ Cardinality(HandlesOf(last.before.contexts)) = 3
  /\ \E f, g, h \in HandlesOf(last.before.contexts) :
       /\ Ordinal(last.before.contexts, f) = 1
       /\ Ordinal(last.before.contexts, g) = 2
       /\ Ordinal(last.before.contexts, h) = 3
       /\ Throwing(last.before.contexts) = {f, g}
       /\ PageAt(last.before.contexts, f).hasFocus
       /\ PageAt(last.before.contexts, f).visible
       /\ last.result = Return(h)
       /\ FocusProbes = <<ProbeOp(f), ProbeOp(g), ProbeOp(h)>>

====
